---- MODULE Spec2Model ----
(***************************************************************************)
(* Model of the agent loop of copilot-agent-participant-js:                *)
(*   src/agent/actionProtocol.js   (action codec)                          *)
(*   src/agent/agentModeRunner.js  (request handling and the agent loop)   *)
(*   src/agent/modelClient.js      (model resolution)                      *)
(*   src/tools/toolRegistry.js     (tool dispatch)                         *)
(*                                                                         *)
(* Text is modelled as a sequence of tokens.  A token is either a single   *)
(* character or a fixed run of characters of the wire format:              *)
(*   "{" "}"  braces            "q"  a double quote     "b"  a backslash   *)
(*   "x"  a prose letter        "s"  a blank            "f"  ```           *)
(*   "j"  the word json                                                    *)
(*   "F"  "type":"final"                                                   *)
(*   "T"  "type":"tool","tool":"t"                                         *)
(*   "N"  "type":"tool","tool":"nope"                                      *)
(*   "R"  ,"content":"cannot search"                                       *)
(*   "C"  ,"content":          (a string literal follows)                  *)
(*   "I"  ,"input":            (an object follows)                         *)
(*   "AB" "a":1,"b":2          "BA" "b":2,"a":1                            *)
(***************************************************************************)
EXTENDS Integers, Sequences, FiniteSets, TLC

VARIABLES
  settings,       \* the settings object shared by runner, ModelClient and registry
  modelPromise,   \* ModelClient.modelPromise: 0 (undefined) or an index of promises
  promises,       \* the promises made by selectModel, in order of creation
  configChanges,  \* number of configuration changes so far
  req,            \* per request: the locals of handleRequest and its log
  env,            \* the inputs the environment draws from (fixed by Init)
  modelOutput,    \* codec run: the text handed to parseAgentAction
  parseResult,    \* codec run: what the codec returned for modelOutput
  call            \* a pure function applied to one input: name, input, result

vars == <<settings, modelPromise, promises, configChanges, req, env,
         modelOutput, parseResult, call>>

\* ------------------------------------------------------------------------
\* Bounds of the model
\* ------------------------------------------------------------------------
MaxIterationsCap == 3
MaxDeepIterations == 6
MaxConfigChanges == 1
MaxSegments == 3
MaxTurns == 2
MaxRequests == 2
MaxCancelIterations == 2

\* ------------------------------------------------------------------------
\* Text helpers
\* ------------------------------------------------------------------------
Null == [type |-> "null"]

\* tokens that stand for a run of characters containing double quotes
QuoteFirst == {"F", "T", "N", "AB", "BA"}
CommaFirst == {"R", "C", "I"}
Composite == QuoteFirst \cup CommaFirst

SubSeqFrom(s, i) == SubSeq(s, i, Len(s))

RECURSIVE TrimLeft(_)
TrimLeft(s) ==
  IF s # <<>> /\ Head(s) \in {"s", "nl"} THEN TrimLeft(Tail(s)) ELSE s

RECURSIVE TrimRight(_)
TrimRight(s) ==
  IF s # <<>> /\ s[Len(s)] \in {"s", "nl"} THEN TrimRight(SubSeq(s, 1, Len(s) - 1)) ELSE s

Trim(s) == TrimRight(TrimLeft(s))

RECURSIVE SkipWs(_, _)
SkipWs(t, i) == IF i <= Len(t) /\ t[i] = "s" THEN SkipWs(t, i + 1) ELSE i

\* ------------------------------------------------------------------------
\* JSON.parse on token text: the parsed object, or Null when it throws
\* ------------------------------------------------------------------------
\* JavaScript values: a string is its text (tokens, "s" a blank), an object
\* literal is its keys in insertion order, an array is its items
Undefined == [kind |-> "undefined"]
JsNull == [kind |-> "null"]
JsString(text) == [kind |-> "string", text |-> text]
JsNumber(n) == [kind |-> "number", n |-> n]
JsArray(items) == [kind |-> "array", items |-> items]
JsObject(keys) == [kind |-> "plain", keys |-> keys]

\* typeof value
typeof(value) ==
  IF value.kind \in {"undefined", "string", "number", "boolean"} THEN value.kind
  ELSE "object"

\* the truthiness of a value
Truthy(value) ==
  CASE value.kind \in {"undefined", "null"} -> FALSE
    [] value.kind = "string" -> value.text # <<>>
    [] value.kind = "number" -> value.n # 0
    [] OTHER -> TRUE

\* the parsed object of an action text, by the four properties the protocol reads
EmptyObject ==
  [kind |-> "action", type |-> Undefined, tool |-> Undefined,
   content |-> Undefined, input |-> Undefined]

\* index of the closing quote of the string literal whose content starts
\* at i, or 0 when the literal is malformed
RECURSIVE StringEnd(_, _)
StringEnd(t, i) ==
  IF i > Len(t) THEN 0
  ELSE IF t[i] = "q" THEN i
  ELSE IF t[i] = "b" THEN
    IF i + 1 <= Len(t) /\ t[i + 1] \in {"q", "b"} THEN StringEnd(t, i + 2) ELSE 0
  ELSE IF t[i] \in Composite THEN 0
  ELSE StringEnd(t, i + 1)

\* members of an object, t being the text between its braces
RECURSIVE ParseMembers(_, _, _, _)
ParseMembers(t, i, first, acc) ==
  IF i > Len(t) THEN acc
  ELSE IF t[i] = "s" THEN ParseMembers(t, i + 1, first, acc)
  ELSE IF t[i] = "F" /\ first THEN
    ParseMembers(t, i + 1, FALSE, [acc EXCEPT !.type = JsString(<<"final">>)])
  ELSE IF t[i] = "T" /\ first THEN
    ParseMembers(t, i + 1, FALSE, [acc EXCEPT !.type = JsString(<<"tool">>),
                                        !.tool = JsString(<<"t">>)])
  ELSE IF t[i] = "N" /\ first THEN
    ParseMembers(t, i + 1, FALSE, [acc EXCEPT !.type = JsString(<<"tool">>),
                                        !.tool = JsString(<<"nope">>)])
  ELSE IF t[i] = "R" /\ ~first THEN
    ParseMembers(t, i + 1, FALSE, [acc EXCEPT !.content = JsString(<<"cannot", "search">>)])
  ELSE IF t[i] = "C" /\ ~first THEN
    LET o == SkipWs(t, i + 1) IN
    IF o > Len(t) \/ t[o] # "q" THEN Null
    ELSE LET e == StringEnd(t, o + 1) IN
         IF e = 0 THEN Null
         ELSE ParseMembers(t, e + 1, FALSE,
                           [acc EXCEPT !.content = JsString(SubSeq(t, o + 1, e - 1))])
  ELSE IF t[i] = "I" /\ ~first THEN
    LET o == SkipWs(t, i + 1) IN
    IF o > Len(t) \/ t[o] # "{" THEN Null
    ELSE LET k == SkipWs(t, o + 1) IN
         IF k > Len(t) THEN Null
         ELSE IF t[k] = "}" THEN
           ParseMembers(t, k + 1, FALSE, [acc EXCEPT !.input = JsObject(<<>>)])
         ELSE IF t[k] \in {"AB", "BA"} THEN
           LET c == SkipWs(t, k + 1) IN
           IF c > Len(t) \/ t[c] # "}" THEN Null
           ELSE ParseMembers(t, c + 1, FALSE,
                  [acc EXCEPT !.input = JsObject(IF t[k] = "AB" THEN <<"a", "b">>
                                                          ELSE <<"b", "a">>)])
         ELSE Null
  ELSE Null

JSONparse(candidate) ==
  LET t == Trim(candidate) IN
  IF Len(t) < 2 \/ t[1] # "{" \/ t[Len(t)] # "}" THEN Null
  ELSE ParseMembers(SubSeq(t, 2, Len(t) - 1), 1, TRUE, EmptyObject)

\* ------------------------------------------------------------------------
\* actionProtocol.js
\* ------------------------------------------------------------------------
FinalAction(content) == [type |-> "final", content |-> content]
ToolAction(tool, input) == [type |-> "tool", tool |-> tool, input |-> input]

\* String.prototype.toLowerCase, token by token
LowerToken(c) ==
  CASE c = "Final" -> "final"
    [] c = "FINAL" -> "final"
    [] c = "Tool" -> "tool"
    [] c = "TOOL" -> "tool"
    [] OTHER -> c
toLowerCase(text) == [i \in 1..Len(text) |-> LowerToken(text[i])]

RECURSIVE JoinItems(_)
\* String(value): the text JavaScript converts a value to
String(value) ==
  CASE value.kind = "string" -> value.text
    [] value.kind = "number" -> <<"1">>
    [] value.kind = "array" -> JoinItems(value.items)
    [] value.kind = "undefined" -> <<"undefined">>
    [] value.kind = "null" -> <<"null">>
    [] OTHER -> <<"[object Object]">>
\* Array.prototype.join(","), null and undefined items giving the empty text
JoinItems(items) ==
  IF items = <<>> THEN <<>>
  ELSE (IF Head(items).kind \in {"undefined", "null"} THEN <<>> ELSE String(Head(items)))
       \o (IF Len(items) > 1 THEN <<",">> \o JoinItems(Tail(items)) ELSE <<>>)

\* the name a trimmed text spells (names of the model have no inner blank)
NameOf(text) == text[1]

normalizeAction(value) ==
  IF value = Null \/ ~Truthy(value) \/ typeof(value) # "object" THEN Null
  ELSE IF value.kind # "action" THEN Null
  ELSE
    LET type == toLowerCase(Trim(String(IF Truthy(value.type) THEN value.type
                                        ELSE JsString(<<>>))))
    IN
    IF type = <<"final">> THEN
      FinalAction(IF typeof(value.content) = "string" THEN value.content.text ELSE <<>>)
    ELSE IF type = <<"tool">> THEN
      LET tool == IF typeof(value.tool) = "string" THEN Trim(value.tool.text) ELSE <<>> IN
      IF tool = <<>> THEN Null
      ELSE ToolAction(NameOf(tool),
                      IF Truthy(value.input) /\ typeof(value.input) = "object"
                      THEN value.input.keys ELSE <<>>)
    ELSE Null

\* the scan of extractFirstJsonObject from position index on; <<>> for null
RECURSIVE ScanObject(_, _, _, _, _, _)
ScanObject(text, index, depth, inString, escapeNext, startIndex) ==
  IF index > Len(text) THEN <<>>
  ELSE LET char == text[index] IN
    IF escapeNext THEN
      \* the escaped character is the first one of the token; the quotes
      \* left in a token that starts with a quote flip the string state
      ScanObject(text, index + 1, depth,
                 IF char \in QuoteFirst THEN ~inString ELSE inString,
                 FALSE, startIndex)
    ELSE IF char = "b" THEN
      ScanObject(text, index + 1, depth, inString, TRUE, startIndex)
    ELSE IF char = "q" THEN
      ScanObject(text, index + 1, depth, ~inString, FALSE, startIndex)
    ELSE IF inString \/ char \notin {"{", "}"} THEN
      ScanObject(text, index + 1, depth, inString, FALSE, startIndex)
    ELSE IF char = "{" THEN
      ScanObject(text, index + 1, depth + 1, inString, FALSE,
                 IF depth = 0 THEN index ELSE startIndex)
    ELSE IF depth - 1 = 0 /\ startIndex # -1 THEN
      SubSeq(text, startIndex, index)
    ELSE
      ScanObject(text, index + 1, depth - 1, inString, FALSE, startIndex)

extractFirstJsonObject(text) == ScanObject(text, 1, 0, FALSE, FALSE, -1)

\* position of the first fence at or after i, 0 when there is none
RECURSIVE NextFence(_, _)
NextFence(text, i) ==
  IF i > Len(text) THEN 0
  ELSE IF text[i] = "f" THEN i
  ELSE NextFence(text, i + 1)

\* match.replace(/```(?:json)?/i, '').replace(/```$/, '').trim() for the
\* match text[p..q]
FenceInner(text, p, q) ==
  LET from == IF p + 1 < q /\ text[p + 1] = "j" THEN p + 2 ELSE p + 1
  IN Trim(SubSeq(text, from, q - 1))

\* the non-empty inner texts of text.match(/```(?:json)?\s*([\s\S]*?)```/gi)
RECURSIVE FencedCandidates(_, _)
FencedCandidates(text, i) ==
  LET p == NextFence(text, i) IN
  IF p = 0 THEN <<>>
  ELSE LET q == NextFence(text, p + 1) IN
    IF q = 0 THEN <<>>
    ELSE LET inner == FenceInner(text, p, q) IN
      (IF inner # <<>> THEN <<inner>> ELSE <<>>) \o FencedCandidates(text, q + 1)

\* mutant of collectJsonCandidates: the first object is tried before the
\* fenced blocks
collectJsonCandidates_ObjectFirst(rawText) ==
  LET text == Trim(rawText)
      whole == IF text # <<>> /\ text[1] = "{" /\ text[Len(text)] = "}"
               THEN <<text>> ELSE <<>>
      firstObject == extractFirstJsonObject(text)
  IN IF text = <<>> THEN <<>>
     ELSE whole \o (IF firstObject # <<>> THEN <<firstObject>> ELSE <<>>)
          \o FencedCandidates(text, 1)

collectJsonCandidates(rawText) ==
  LET text == Trim(rawText)
      whole == IF text # <<>> /\ text[1] = "{" /\ text[Len(text)] = "}"
               THEN <<text>> ELSE <<>>
      firstObject == extractFirstJsonObject(text)
  IN IF text = <<>> THEN <<>>
     ELSE whole \o FencedCandidates(text, 1)
          \o (IF firstObject # <<>> THEN <<firstObject>> ELSE <<>>)

RECURSIVE FirstNormalized(_, _)
FirstNormalized(jsonCandidates, k) ==
  IF k > Len(jsonCandidates) THEN Null
  ELSE LET normalized == normalizeAction(JSONparse(jsonCandidates[k])) IN
    IF normalized # Null THEN normalized ELSE FirstNormalized(jsonCandidates, k + 1)

parseAgentAction(rawText) == FirstNormalized(collectJsonCandidates(rawText), 1)

\* JSON.stringify of an input object: its keys in insertion order
JSONstringify(input) == <<"{">> \o input \o <<"}">>

\* the payload object formatToolObservation builds; an Undefined metadata
\* is a payload without the property
ObservationPayload(toolName, result) ==
  [tool |-> toolName,
   ok |-> result.ok # FALSE,
   output |-> result.output,
   error |-> IF Truthy(result.error) THEN JsString(String(result.error)) ELSE JsNull,
   metadata |-> IF Truthy(result.metadata) /\ typeof(result.metadata) = "object"
                THEN result.metadata ELSE Undefined]

\* the characters of a string inside a JSON string literal
RECURSIVE Escape(_)
Escape(text) ==
  IF text = <<>> THEN <<>>
  ELSE (IF Head(text) \in {"q", "b"} THEN <<"b", Head(text)>> ELSE <<Head(text)>>)
       \o Escape(Tail(text))

Quoted(text) == <<"q">> \o Escape(text) \o <<"q">>

\* JSON.stringify(payload)
stringifyPayload(payload) ==
  <<"{", "tool:">> \o Quoted(<<payload.tool>>)
  \o <<",", "ok:", IF payload.ok THEN "true" ELSE "false">>
  \o <<",", "output:">> \o Quoted(payload.output)
  \o <<",", "error:">>
  \o (IF payload.error.kind = "null" THEN <<"null">> ELSE Quoted(payload.error.text))
  \o (IF payload.metadata.kind = "undefined" THEN <<>>
      ELSE <<",", "metadata:">> \o JSONstringify(payload.metadata.keys))
  \o <<"}">>

\* a JSON string literal read from the character after its opening quote:
\* its text and the index after its closing quote (0 when it does not close)
RECURSIVE ReadString(_, _, _)
ReadString(t, i, acc) ==
  IF i > Len(t) THEN [text |-> acc, next |-> 0]
  ELSE IF t[i] = "q" THEN [text |-> acc, next |-> i + 1]
  ELSE IF t[i] = "b" THEN
    IF i + 1 > Len(t) THEN [text |-> acc, next |-> 0]
    ELSE ReadString(t, i + 2, Append(acc, t[i + 1]))
  ELSE ReadString(t, i + 1, Append(acc, t[i]))

\* index of the first "}" of t at or after i (0 when there is none)
RECURSIVE CloseBrace(_, _)
CloseBrace(t, i) ==
  IF i > Len(t) THEN 0 ELSE IF t[i] = "}" THEN i ELSE CloseBrace(t, i + 1)

PayloadKeys == {"tool:", "ok:", "output:", "error:", "metadata:"}
NoProperties ==
  [tool |-> Undefined, ok |-> Undefined, output |-> Undefined,
   error |-> Undefined, metadata |-> Undefined]

\* JSON.parse on the members of a payload text: the object, Null on a syntax error
RECURSIVE ParsePayloadMembers(_, _, _)
ParsePayloadMembers(t, i, acc) ==
  IF i > Len(t) THEN Null
  ELSE IF t[i] = "}" THEN (IF i = Len(t) THEN acc ELSE Null)
  ELSE IF t[i] = "," THEN ParsePayloadMembers(t, i + 1, acc)
  ELSE IF t[i] \notin PayloadKeys \/ i + 1 > Len(t) THEN Null
  ELSE
    LET key == t[i]
        v == t[i + 1]
        put(value, next) ==
          ParsePayloadMembers(t, next,
            CASE key = "tool:" -> [acc EXCEPT !.tool = value]
              [] key = "ok:" -> [acc EXCEPT !.ok = value]
              [] key = "output:" -> [acc EXCEPT !.output = value]
              [] key = "error:" -> [acc EXCEPT !.error = value]
              [] OTHER -> [acc EXCEPT !.metadata = value])
    IN
    IF v = "q" THEN
      LET str == ReadString(t, i + 2, <<>>) IN
      IF str.next = 0 THEN Null ELSE put(JsString(str.text), str.next)
    ELSE IF v = "true" THEN put([kind |-> "boolean", b |-> TRUE], i + 2)
    ELSE IF v = "false" THEN put([kind |-> "boolean", b |-> FALSE], i + 2)
    ELSE IF v = "null" THEN put(JsNull, i + 2)
    ELSE IF v = "{" THEN
      LET c == CloseBrace(t, i + 2) IN
      IF c = 0 THEN Null ELSE put(JsObject(SubSeq(t, i + 2, c - 1)), c + 1)
    ELSE Null

\* JSON.parse on the JSON object of an observation text
parsePayload(json) ==
  IF json = <<>> \/ Head(json) # "{" THEN Null
  ELSE ParsePayloadMembers(json, 2, NoProperties)

\* the observation text: the marker line, then the payload as JSON
formatToolObservation(toolName, result) ==
  <<"TOOL_RESULT", "nl">> \o stringifyPayload(ObservationPayload(toolName, result))

\* ------------------------------------------------------------------------
\* historyAdapter.js
\* ------------------------------------------------------------------------
\* a history turn by its prompt and response properties, a response part by
\* its value and text properties
Turn(prompt, response) == [kind |-> "turn", prompt |-> prompt, response |-> response]
Part(value, text) == [kind |-> "part", value |-> value, text |-> text]

extractRequestText(turn) ==
  IF ~Truthy(turn) \/ typeof(turn) # "object" THEN <<>>
  ELSE IF turn.kind = "turn" /\ typeof(turn.prompt) = "string"
    THEN Trim(turn.prompt.text)
  ELSE <<>>

extractResponsePartText(part) ==
  IF ~Truthy(part) \/ typeof(part) # "object" THEN <<>>
  ELSE IF part.kind # "part" THEN <<>>
  ELSE IF typeof(part.value) = "string" THEN part.value.text
  ELSE IF /\ Truthy(part.value)
          /\ part.value.kind = "part"
          /\ typeof(part.value.value) = "string" THEN part.value.value.text
  ELSE IF typeof(part.text) = "string" THEN part.text.text
  ELSE <<>>

\* response.map(extractResponsePartText).filter(Boolean).join('\n')
RECURSIVE JoinParts(_, _)
JoinParts(parts, first) ==
  IF parts = <<>> THEN <<>>
  ELSE LET text == extractResponsePartText(Head(parts)) IN
       IF text = <<>> THEN JoinParts(Tail(parts), first)
       ELSE (IF first THEN <<>> ELSE <<"nl">>) \o text \o JoinParts(Tail(parts), FALSE)

extractResponseText(turn) ==
  IF ~Truthy(turn) \/ typeof(turn) # "object" THEN <<>>
  ELSE IF turn.kind # "turn" \/ turn.response.kind # "array" THEN <<>>
  ELSE Trim(JoinParts(turn.response.items, TRUE))

HistoryMessage(role, text) == [role |-> role, text |-> text]

RECURSIVE TurnsToMessages(_)
TurnsToMessages(turns) ==
  IF turns = <<>> THEN <<>>
  ELSE LET turn == Head(turns)
           requestText == extractRequestText(turn)
           responseText == extractResponseText(turn)
       IN (IF requestText # <<>> THEN <<HistoryMessage("User", requestText)>>
           ELSE IF responseText # <<>> THEN <<HistoryMessage("Assistant", responseText)>>
           ELSE <<>>)
          \o TurnsToMessages(Tail(turns))

toModelMessages(history) ==
  IF history.kind # "array" THEN <<>> ELSE TurnsToMessages(history.items)

\* ------------------------------------------------------------------------
\* toolRegistry.js
\* ------------------------------------------------------------------------
\* a tool result without metadata; error is Undefined when the property is absent
ToolResult(ok, output, error) ==
  [ok |-> ok, output |-> output, error |-> error, metadata |-> Undefined]

\* a raw exception reaching the caller of ToolRegistry.execute
Thrown ==
  [ok |-> FALSE, output |-> <<>>, error |-> JsString(<<"exception">>),
   metadata |-> Undefined, thrown |-> TRUE]

\* names registered by ToolRegistry.updateSettings ("t" stands for any
\* registered tool the loop can ask for)
getToolNames == <<"t", "search_text", "web_search", "hello_world">>
IsRegistered(toolName) == \E i \in 1..Len(getToolNames) : getToolNames[i] = toolName

\* the result of execute for a name that is not registered
UnknownTool(toolName) ==
  ToolResult(FALSE, <<>>, JsString(<<"Unknown tool", toolName, "Available">> \o getToolNames))

\* what a registered tool's own execute can do: return a result or throw
ToolOutcomes ==
  { [throws |-> FALSE, result |-> ToolResult(TRUE, <<"out">>, Undefined)],
    [throws |-> FALSE, result |-> ToolResult(FALSE, <<>>, JsString(<<"failed">>))],
    [throws |-> TRUE, result |-> ToolResult(FALSE, <<>>, JsString(<<"boom">>))] }

\* mutant of execute: the tool's exception is not caught
execute_Rethrow(outcome) == IF outcome.throws THEN Thrown ELSE outcome.result

\* the value ToolRegistry.execute resolves to for an outcome of the tool
execute(outcome) ==
  IF outcome.throws THEN ToolResult(FALSE, <<>>, outcome.result.error)
  ELSE outcome.result

\* ------------------------------------------------------------------------
\* Inputs of the model
\* ------------------------------------------------------------------------
Request(command, prompt, model, history) ==
  [command |-> command, prompt |-> prompt, model |-> model, history |-> history]

\* prompt classes: "" (empty after trim), "plain", "web" (asks for a web
\* search), "wsintent" (workspace search intent without a query)
RequestInputs ==
  { Request("", "plain", "chatModel", <<>>),
    Request("fix", "", "none", <<>>),
    Request("", "", "none", <<>>),
    Request("", "web", "none", <<>>),
    Request("", "wsintent", "none", <<>>),
    Request("Search", "", "none", <<>>),
    Request("search", "plain", "none", <<>>),
    Request("hello", "", "none", <<>>),
    Request("hello", "plain", "none", <<>>),
    Request("web", "plain", "none", <<>>),
    Request("compact", "", "none", <<>>),
    Request("compact", "", "none", <<"turn">>) }

\* texts a model call can stream
Unparsable == <<"x">>
FinalEmpty == <<"{", "F", "}">>
FinalText == <<"{", "F", "C", "q", "x", "q", "}">>
FinalRefusal == <<"s", "{", "F", "R", "}">>
ToolPlain == <<"x", "{", "T", "}", "x">>
ToolAB == <<"{", "T", "I", "{", "AB", "}", "}">>
ToolBA == <<"{", "T", "I", "{", "BA", "}", "}">>
ToolUnknown == <<"f", "j", "s", "{", "N", "}", "f">>

Completions ==
  {Unparsable, FinalEmpty, FinalText, FinalRefusal, ToolPlain, ToolAB, ToolBA, ToolUnknown}

Families == {"", "gpt"}
SettingsValues == [maxIterations : 1..MaxIterationsCap, modelFamily : Families]

\* all inputs, short loops
FullEnv ==
  [completions |-> Completions, toolOutcomes |-> ToolOutcomes,
   settingsValues |-> SettingsValues, requests |-> {1}]

\* few inputs, long loops
DeepEnv ==
  [completions |-> {Unparsable, FinalRefusal, ToolPlain, ToolAB},
   toolOutcomes |-> {[throws |-> FALSE, result |-> ToolResult(TRUE, <<"out">>, Undefined)]},
   settingsValues |-> [maxIterations : {MaxDeepIterations - 1, MaxDeepIterations},
                       modelFamily : {""}],
   requests |-> {1}]

\* few completions, short loops
CancelEnv ==
  [completions |-> {Unparsable, FinalText, ToolPlain},
   toolOutcomes |-> ToolOutcomes,
   settingsValues |-> [maxIterations : 1..MaxCancelIterations, modelFamily : Families],
   requests |-> {1}]

\* concurrent requests, loops of one iteration
TwoEnv ==
  [completions |-> {FinalText, ToolPlain},
   toolOutcomes |-> {[throws |-> FALSE, result |-> ToolResult(TRUE, <<"out">>, Undefined)]},
   settingsValues |-> [maxIterations : {1}, modelFamily : Families],
   requests |-> 1..MaxRequests]

\* ------------------------------------------------------------------------
\* modelClient.js
\* ------------------------------------------------------------------------
isUsableModel(model) == model # "none"

\* the first model vscode.lm.selectChatModels returns for a selector
DefaultModel(family) == IF family = "" THEN "copilot" ELSE "copilot/gpt"

\* streamToText: the chunks are joined until the token is seen cancelled,
\* then trimmed; cancelledAfter is the number of chunks that arrive before
\* token.isCancellationRequested turns true (all of them when it never does)
streamToText(stream, cancelledAfter) == Trim(SubSeq(stream, 1, cancelledAfter))

\* ------------------------------------------------------------------------
\* agentModeRunner.js
\* ------------------------------------------------------------------------
\* mutant of COMMAND_TOOL_MAP: /hello asks for a prompt like the others
COMMAND_TOOL_MAP_HelloNeedsPrompt ==
  [websearch |-> [tool |-> "web_search", requiresPrompt |-> TRUE],
   web |-> [tool |-> "web_search", requiresPrompt |-> TRUE],
   search |-> [tool |-> "search_text", requiresPrompt |-> TRUE],
   workspacesearch |-> [tool |-> "search_text", requiresPrompt |-> TRUE],
   hello |-> [tool |-> "hello_world", requiresPrompt |-> TRUE],
   helloworld |-> [tool |-> "hello_world", requiresPrompt |-> TRUE]]

COMMAND_TOOL_MAP ==
  [websearch |-> [tool |-> "web_search", requiresPrompt |-> TRUE],
   web |-> [tool |-> "web_search", requiresPrompt |-> TRUE],
   search |-> [tool |-> "search_text", requiresPrompt |-> TRUE],
   workspacesearch |-> [tool |-> "search_text", requiresPrompt |-> TRUE],
   hello |-> [tool |-> "hello_world", requiresPrompt |-> FALSE],
   helloworld |-> [tool |-> "hello_world", requiresPrompt |-> FALSE]]

normalizeCommand(command) == IF command = "Search" THEN "search" ELSE command

looksLikeSearchCapabilityRefusal(content) ==
  /\ \E i \in 1..Len(content) : content[i] \in {"search", "workspace"}
  /\ \E i \in 1..Len(content) :
        content[i] \in {"unavailable", "cannot", "permission", "permissions"}

isWorkspaceSearchIntent(prompt) == prompt = "wsintent"

inferAutonomousToolRequest(prompt) ==
  IF prompt = "web" THEN ToolAction("web_search", <<"query">>) ELSE Null

formatDirectToolResponse(toolName, toolResult) ==
  IF toolResult.ok = FALSE THEN
    <<"failed">> \o (IF Truthy(toolResult.error) THEN toolResult.error.text
                     ELSE IF toolResult.output # <<>> THEN toolResult.output
                     ELSE <<"Unknown tool error.">>)
  ELSE IF Trim(toolResult.output) # <<>> THEN Trim(toolResult.output)
  ELSE <<"completed">>

\* the log of a request: what it sent to the stream (progress, warning,
\* markdown), the calls it made (sendRequest, execute) and what came back
\* (completion, finalAttempt, response, toolResult, throw), the messages it
\* pushed (push) and what handleRequest returned (return)
Ev(kind, text) == [ev |-> kind, text |-> text]
OkText(ok) == IF ok THEN "ok" ELSE "failed"

Message(role, kind, text, payload) ==
  [role |-> role, kind |-> kind, text |-> text, payload |-> payload]
NoPayload ==
  [tool |-> "", ok |-> TRUE, output |-> <<>>, error |-> JsNull, metadata |-> Undefined]
User(kind) == Message("User", kind, <<>>, NoPayload)
\* mutant of Assistant: the completion goes back as a User message
Assistant_AsUser(rawResponse) == Message("User", "completion", rawResponse, NoPayload)

\* vscode.LanguageModelChatMessage.Assistant(rawResponse)
Assistant(rawResponse) == Message("Assistant", "completion", rawResponse, NoPayload)
Observation(toolName, result) ==
  Message("User", "TOOL_RESULT", formatToolObservation(toolName, result),
          ObservationPayload(toolName, result))

IdleRequest ==
  [pc |-> "idle", request |-> Request("", "", "none", <<>>),
   selectedModel |-> "none", awaiting |-> 0, iteration |-> 0,
   iterationLimit |-> 0,
   modelMessages |-> <<>>, previousToolSignature |-> <<>>,
   repeatedToolCallCount |-> 0, parseFailureCount |-> 0,
   capabilityRefusalRetryCount |-> 0, action |-> Null, trace |-> <<>>,
   cancelledAt |-> -1, epoch |-> 0]

\* the numbers of chunks of a stream that can arrive before the token of
\* the request is cancelled: all when it is not cancelled, none when it was
\* cancelled before the call began, any number when it was cancelled since
ChunksBeforeCancel(q, stream) ==
  IF q.cancelledAt = -1 THEN {Len(stream)}
  ELSE IF q.cancelledAt < Len(q.trace) THEN {0}
  ELSE 0..Len(stream)

Emit(q, events) == [q EXCEPT !.trace = @ \o events]

\* mutant of Push: the message is put in front of the transcript
Push_Unshift(q, message) ==
  [q EXCEPT !.modelMessages = <<message>> \o @,
            !.trace = Append(@, Ev("push", <<message.role, message.kind,
                                             OkText(message.payload.ok)>>))]

\* modelMessages.push(message)
Push(q, message) ==
  [q EXCEPT !.modelMessages = Append(@, message),
            !.trace = Append(@, Ev("push", <<message.role, message.kind,
                                             OkText(message.payload.ok)>>))]

\* mutant of Return: the statement after the answer is not a return
Return_FallsThrough(q) == Emit(q, <<Ev("return", <<"{}">>)>>)

\* return {} of handleRequest
Return(q) == [Emit(q, <<Ev("return", <<"{}">>)>>) EXCEPT !.pc = "done"]

\* mutant of Catch: the failure is swallowed and {} is returned
Catch_ReturnsEmpty(q) ==
  [Emit(q, <<Ev("warning", <<"Agent execution failed">>),
             Ev("return", <<"{}">>)>>) EXCEPT !.pc = "done"]

\* the catch block of handleRequest
Catch(q) ==
  [Emit(q, <<Ev("warning", <<"Agent execution failed">>),
             Ev("return", <<"errorDetails">>)>>) EXCEPT !.pc = "failed"]

\* the promise getModel returns for a request without a usable model: the
\* cached one, or the one selectModel makes from the settings of the moment
\* (epoch: the number of configuration changes before it was made)
NewPromise ==
  [state |-> "pending", family |-> settings.modelFamily, model |-> "none",
   epoch |-> configChanges]
getModel == IF modelPromise = 0 THEN NewPromise ELSE promises[modelPromise]

\* mutant of complete: the preferred model is ignored and the default for
\* the current settings is used
complete_IgnoresPreferred(q, at) ==
  [Emit(q, <<Ev("sendRequest", <<DefaultModel(settings.modelFamily)>>)>>) EXCEPT !.pc = at]

\* modelClient.complete up to the await of model.sendRequest: getModel
\* returns the preferred model, the one resolved for the request, when it
\* is usable (as every resolved model is) and the cached default otherwise
complete(q, at) ==
  LET model == IF isUsableModel(q.selectedModel) THEN q.selectedModel
               ELSE getModel.model
  IN [Emit(q, <<Ev("sendRequest", <<model>>)>>) EXCEPT !.pc = at]

\* mutant of LoopHead: the loop test is off by one
LoopHead_OffByOne(q) ==
  LET iteration == q.iteration + 1
      next == [q EXCEPT !.iteration = iteration,
                        !.iterationLimit =
                          IF settings.maxIterations > @ THEN settings.maxIterations ELSE @]
  IN IF iteration <= settings.maxIterations + 1
     THEN complete(next, "modelCall")
     ELSE complete(
            Push(Emit(next, <<Ev("warning", <<"Reached iteration limit">>)>>),
                 User("budget")),
            "forcedCall")

\* the loop header (increment, test) followed by the model call of the
\* body, or by the forced-completion call once the test fails;
\* iterationLimit records the largest maxIterations a test of this request
\* has read
LoopHead(q) ==
  LET iteration == q.iteration + 1
      next == [q EXCEPT !.iteration = iteration,
                        !.iterationLimit =
                          IF settings.maxIterations > @ THEN settings.maxIterations ELSE @]
  IN IF iteration <= settings.maxIterations
     THEN complete(next, "modelCall")
     ELSE complete(
            Push(Emit(next, <<Ev("warning", <<"Reached iteration limit">>)>>),
                 User("budget")),
            "forcedCall")

\* mutant of Dispatch: the tool is started but not awaited, the loop goes on
\* to a model call
Dispatch_NotAwaited(q, toolName, input, at) ==
  complete([Emit(q, <<Ev("execute", <<toolName>> \o JSONstringify(input))>>)
              EXCEPT !.action = ToolAction(toolName, input)], "modelCall")

\* toolRegistry.execute up to the await of the tool's own execute
Dispatch(q, toolName, input, at) ==
  [Emit(q, <<Ev("execute", <<toolName>> \o JSONstringify(input))>>)
     EXCEPT !.pc = at, !.action = ToolAction(toolName, input)]

\* mutant of AfterResolve: the model in use is not reported
AfterResolve_Silent(q, model) ==
  LET using == [q EXCEPT !.selectedModel = model, !.awaiting = 0]
  IN IF q.request.command = "compact"
     THEN complete(using, "compactCall")
     ELSE LoopHead(Push(Push(using, User("system")), User("task")))

\* handleRequest / handleCompact after resolveModel has returned model
AfterResolve(q, model) ==
  LET using == Emit([q EXCEPT !.selectedModel = model, !.awaiting = 0],
                    <<Ev("progress", <<"Using model", model>>)>>)
  IN IF q.request.command = "compact"
     THEN complete(using, "compactCall")
     ELSE LoopHead(Push(Push(using, User("system")), User("task")))

\* resolveModel and what follows it up to the next suspension
ResolveModel(q) ==
  IF isUsableModel(q.request.model) THEN AfterResolve(q, q.request.model)
  ELSE IF getModel.state = "fulfilled" THEN AfterResolve(q, getModel.model)
  ELSE IF getModel.state = "rejected"
    THEN Catch(Emit(q, <<Ev("throw", <<"resolveModel">>)>>))
  ELSE [q EXCEPT !.pc = "resolveModel",
                 !.awaiting = IF modelPromise = 0 THEN Len(promises) + 1 ELSE modelPromise]

\* the synchronous part of handleRequest before model resolution; the
\* record keeps pc = "idle" when the request goes on to resolveModel
Entry(q) ==
  LET request == q.request
      command == normalizeCommand(request.command)
  IN
  IF request.command = "compact" THEN
    IF request.history = <<>>
    THEN Return(Emit(q, <<Ev("markdown", <<"Nothing to compact yet.">>)>>))
    ELSE q
  ELSE IF command \in DOMAIN COMMAND_TOOL_MAP THEN
    IF COMMAND_TOOL_MAP[command].requiresPrompt /\ request.prompt = ""
    THEN Return(Emit(q, <<Ev("markdown", <<"Usage", command>>)>>))
    ELSE Dispatch(Emit(q, <<Ev("progress", <<"Running tool", COMMAND_TOOL_MAP[command].tool>>)>>),
                  COMMAND_TOOL_MAP[command].tool,
                  IF request.prompt # "" THEN <<IF command \in {"hello", "helloworld"}
                                                THEN "message" ELSE "query">>
                  ELSE <<>>,
                  "commandTool")
  ELSE IF request.prompt = "" /\ request.command = "" THEN
    Return(Emit(q, <<Ev("markdown", <<"Please enter a prompt or command.">>)>>))
  ELSE IF command = "" /\ request.prompt # "" /\ isWorkspaceSearchIntent(request.prompt) THEN
    Return(Emit(q, <<Ev("markdown", <<"Workspace search is enabled.">>)>>))
  ELSE IF command = "" /\ request.prompt # ""
          /\ inferAutonomousToolRequest(request.prompt) # Null THEN
    LET autonomousTool == inferAutonomousToolRequest(request.prompt) IN
    Dispatch(Emit(q, <<Ev("progress", <<"Autonomous tool call", autonomousTool.tool>>)>>),
             autonomousTool.tool, autonomousTool.input, "commandTool")
  ELSE q

\* mutant of ParseFailureLimitReached: a third failure is waited for
ParseFailureLimitReached_Three(parseFailureCount) == parseFailureCount >= 3

\* parseFailureCount >= 2
ParseFailureLimitReached(parseFailureCount) == parseFailureCount >= 2

\* mutant of ShouldRetryRefusal: the retry budget is never free
ShouldRetryRefusal_Never(content, capabilityRefusalRetryCount) ==
  looksLikeSearchCapabilityRefusal(content) /\ capabilityRefusalRetryCount < 0

\* mutant of ShouldRetryRefusal: the retry budget is not consulted
ShouldRetryRefusal_NoBudget(content, capabilityRefusalRetryCount) ==
  looksLikeSearchCapabilityRefusal(content)

\* looksLikeSearchCapabilityRefusal(action.content) && capabilityRefusalRetryCount < 1
ShouldRetryRefusal(content, capabilityRefusalRetryCount) ==
  looksLikeSearchCapabilityRefusal(content) /\ capabilityRefusalRetryCount < 1

\* mutant of currentToolSignature: the input is left out
currentToolSignature_ToolOnly(action) == <<action.tool, ":">>

\* `${action.tool}:${JSON.stringify(action.input || {})}`
currentToolSignature(action) == <<action.tool, ":">> \o JSONstringify(action.input)

\* mutant of RepeatLimitExceeded: the third identical call still runs
RepeatLimitExceeded_Three(repeatedToolCallCount) == repeatedToolCallCount > 3

\* repeatedToolCallCount > 2
RepeatLimitExceeded(repeatedToolCallCount) == repeatedToolCallCount > 2

\* mutant of FinalAnswer: an empty content is answered with 'Done.'
FinalAnswer_OrDone(finalAttempt) ==
  LET finalAction == parseAgentAction(finalAttempt) IN
  IF finalAction # Null /\ finalAction.type = "final"
  THEN (IF finalAction.content # <<>> THEN finalAction.content ELSE <<"Done.">>)
  ELSE finalAttempt

\* mutant of FinalAnswer: the content of any parsed action is emitted
FinalAnswer_AnyAction(finalAttempt) ==
  LET finalAction == parseAgentAction(finalAttempt) IN
  IF finalAction = Null THEN finalAttempt
  ELSE IF finalAction.type = "final" THEN finalAction.content
  ELSE <<"undefined">>

\* the text of the answer after the forced-completion call (also /compact)
FinalAnswer(finalAttempt) ==
  LET finalAction == parseAgentAction(finalAttempt) IN
  IF finalAction # Null /\ finalAction.type = "final"
  THEN finalAction.content ELSE finalAttempt

\* the loop after a tool result (from the registry, or thrown through it)
AfterToolResult(q, toolResult) ==
  IF "thrown" \in DOMAIN toolResult
  THEN Catch(Emit(q, <<Ev("throw", <<"execute">>)>>))
  ELSE LoopHead(Push(Emit(q, <<Ev("toolResult", <<OkText(toolResult.ok)>>)>>),
                     Observation(q.action.tool, toolResult)))

\* mutant of AfterParse: the count of parse failures is kept
AfterParse_NoReset(q) == q

\* parseFailureCount = 0 once a completion has parsed
AfterParse(q) == [q EXCEPT !.parseFailureCount = 0]

\* the body of the loop from the completion to the next suspension
LoopBody(q, rawResponse) ==
  LET action == parseAgentAction(rawResponse)
      pushed == Push(Emit(q, <<Ev("completion", rawResponse)>>), Assistant(rawResponse))
  IN
  IF action = Null THEN
    LET failed == [pushed EXCEPT !.parseFailureCount = @ + 1] IN
    IF ParseFailureLimitReached(failed.parseFailureCount)
    THEN Return(Emit(failed, <<Ev("warning", <<"Model returned non-JSON output">>),
                               Ev("markdown", rawResponse)>>))
    ELSE LoopHead(Push(failed, User("invalidFormat")))
  ELSE LET parsed == AfterParse(pushed) IN
  IF action.type = "final" THEN
    IF ShouldRetryRefusal(action.content, parsed.capabilityRefusalRetryCount)
    THEN LoopHead(Push(Emit([parsed EXCEPT !.capabilityRefusalRetryCount = @ + 1],
                            <<Ev("warning", <<"Search capability is available">>)>>),
                       User("refusalGuidance")))
    ELSE Return(Emit(parsed, <<Ev("markdown",
                  IF action.content # <<>> THEN action.content ELSE <<"Done.">>)>>))
  ELSE
    LET counted ==
          IF currentToolSignature(action) = parsed.previousToolSignature
          THEN [parsed EXCEPT !.repeatedToolCallCount = @ + 1]
          ELSE [parsed EXCEPT !.previousToolSignature = currentToolSignature(action),
                              !.repeatedToolCallCount = 1]
    IN
    IF RepeatLimitExceeded(counted.repeatedToolCallCount) THEN
      LoopHead(Push(Emit(counted, <<Ev("warning", <<"Blocked repeated tool call", action.tool>>)>>),
                    Observation(action.tool,
                                ToolResult(FALSE, <<>>,
                                           JsString(<<"Identical tool call repeated too many times">>)))))
    ELSE
      LET running == Dispatch(Emit(counted, <<Ev("progress", <<"Running tool", action.tool>>)>>),
                              action.tool, action.input, "toolCall")
      IN IF IsRegistered(action.tool) THEN running
         ELSE AfterToolResult(running, UnknownTool(action.tool))

\* ------------------------------------------------------------------------
\* Actions
\* ------------------------------------------------------------------------
\* a chat request arrives: handleRequest runs to its first suspension
StartRequest(r) ==
  /\ req[r].pc = "idle"
  /\ \E request \in RequestInputs :
       LET q == Entry([req[r] EXCEPT !.request = request, !.epoch = configChanges]) IN
       IF q.pc # "idle" THEN
         /\ req' = [req EXCEPT ![r] = q]
         /\ UNCHANGED <<modelPromise, promises>>
       ELSE
         /\ req' = [req EXCEPT ![r] = ResolveModel(q)]
         /\ IF ~isUsableModel(request.model) /\ modelPromise = 0
            THEN /\ promises' = Append(promises, NewPromise)
                 /\ modelPromise' = Len(promises) + 1
            ELSE UNCHANGED <<modelPromise, promises>>
  /\ UNCHANGED <<settings, configChanges, env, modelOutput, parseResult, call>>

\* vscode.lm.selectChatModels settles: selectModel returns models[0] or
\* throws, and every request awaiting the promise resumes
SelectionSettles(p) ==
  /\ p \in 1..Len(promises)
  /\ promises[p].state = "pending"
  /\ \E found \in BOOLEAN :
       /\ promises' = [promises EXCEPT ![p] =
            IF found THEN [@ EXCEPT !.state = "fulfilled",
                                    !.model = DefaultModel(promises[p].family)]
            ELSE [@ EXCEPT !.state = "rejected"]]
       /\ req' = [r \in DOMAIN req |->
            IF req[r].pc = "resolveModel" /\ req[r].awaiting = p
            THEN IF found THEN AfterResolve(req[r], DefaultModel(promises[p].family))
                 ELSE Catch(Emit([req[r] EXCEPT !.awaiting = 0],
                                 <<Ev("throw", <<"resolveModel">>)>>))
            ELSE req[r]]
  /\ UNCHANGED <<settings, modelPromise, configChanges, env, modelOutput, parseResult, call>>

\* a model call of the loop returns its streamed text or throws
ModelCompletes(r) ==
  /\ req[r].pc = "modelCall"
  /\ \/ \E stream \in env.completions :
        \E n \in ChunksBeforeCancel(req[r], stream) :
          req' = [req EXCEPT ![r] = LoopBody(req[r], streamToText(stream, n))]
     \/ req' = [req EXCEPT ![r] = Catch(Emit(req[r], <<Ev("throw", <<"sendRequest">>)>>))]
  /\ UNCHANGED <<settings, modelPromise, promises, configChanges, env, modelOutput, parseResult, call>>

\* the tool run by the loop returns or throws inside ToolRegistry.execute
ToolReturns(r) ==
  /\ req[r].pc = "toolCall"
  /\ \E outcome \in env.toolOutcomes :
       req' = [req EXCEPT ![r] = AfterToolResult(req[r], execute(outcome))]
  /\ UNCHANGED <<settings, modelPromise, promises, configChanges, env, modelOutput, parseResult, call>>

\* the forced-completion call returns or throws
ForcedCompletes(r) ==
  /\ req[r].pc = "forcedCall"
  /\ \/ \E stream \in env.completions :
        \E n \in ChunksBeforeCancel(req[r], stream) :
          LET finalAttempt == streamToText(stream, n) IN
          req' = [req EXCEPT ![r] =
            Return(Emit(req[r], <<Ev("finalAttempt", finalAttempt),
                                  Ev("markdown", FinalAnswer(finalAttempt))>>))]
     \/ req' = [req EXCEPT ![r] = Catch(Emit(req[r], <<Ev("throw", <<"sendRequest">>)>>))]
  /\ UNCHANGED <<settings, modelPromise, promises, configChanges, env, modelOutput, parseResult, call>>

\* the model call of /compact returns or throws
CompactCompletes(r) ==
  /\ req[r].pc = "compactCall"
  /\ \/ \E stream \in env.completions :
        \E n \in ChunksBeforeCancel(req[r], stream) :
          LET response == streamToText(stream, n) IN
          req' = [req EXCEPT ![r] =
            Return(Emit(req[r], <<Ev("response", response),
                                  Ev("markdown", FinalAnswer(response))>>))]
     \/ req' = [req EXCEPT ![r] = Catch(Emit(req[r], <<Ev("throw", <<"sendRequest">>)>>))]
  /\ UNCHANGED <<settings, modelPromise, promises, configChanges, env, modelOutput, parseResult, call>>

\* the tool of a slash command or of an autonomous trigger returns
CommandToolReturns(r) ==
  /\ req[r].pc = "commandTool"
  /\ \E outcome \in env.toolOutcomes :
       LET toolResult == execute(outcome) IN
       req' = [req EXCEPT ![r] =
         IF "thrown" \in DOMAIN toolResult
         THEN Catch(Emit(req[r], <<Ev("throw", <<"execute">>)>>))
         ELSE Return(Emit(req[r],
                <<Ev("toolResult", <<OkText(toolResult.ok)>>),
                  Ev("markdown", formatDirectToolResponse(req[r].action.tool, toolResult))>>))]
  /\ UNCHANGED <<settings, modelPromise, promises, configChanges, env, modelOutput, parseResult, call>>

\* mutant of UpdateRuntime: the cached model promise survives the change
UpdateRuntime_KeepsCache ==
  /\ configChanges < MaxConfigChanges
  /\ \E r \in DOMAIN req : req[r].pc \notin {"done", "failed"}
  /\ \E s \in env.settingsValues : settings' = s
  /\ configChanges' = configChanges + 1
  /\ UNCHANGED <<modelPromise, promises, req, env, modelOutput, parseResult, call>>

\* onDidChangeConfiguration while a request is being served: settings are
\* reloaded and handed to the registry and to the runner, whose ModelClient
\* clears the cached model promise
UpdateRuntime ==
  /\ configChanges < MaxConfigChanges
  /\ \E r \in DOMAIN req : req[r].pc \notin {"done", "failed"}
  /\ \E s \in env.settingsValues : settings' = s
  /\ modelPromise' = 0
  /\ configChanges' = configChanges + 1
  /\ UNCHANGED <<promises, req, env, modelOutput, parseResult, call>>

\* the user cancels the request: its token turns cancelled while the
\* request is being served (the trace length tells when)
Cancel(r) ==
  /\ req[r].pc \notin {"idle", "done", "failed"}
  /\ req[r].cancelledAt = -1
  /\ req' = [req EXCEPT ![r].cancelledAt = Len(req[r].trace)]
  /\ UNCHANGED <<settings, modelPromise, promises, configChanges, env, modelOutput, parseResult, call>>


NoParse == [done |-> FALSE, action |-> Null, firstObject |-> <<>>]
NoCall == [fn |-> "none", input |-> Null, done |-> FALSE, output |-> Null]

InitWith(e) ==
  /\ env = e
  /\ settings \in e.settingsValues
  /\ modelPromise = 0
  /\ promises = <<>>
  /\ configChanges = 0
  /\ req = [r \in e.requests |-> IdleRequest]
  /\ modelOutput = <<>>
  /\ parseResult = NoParse
  /\ call = NoCall

Init == InitWith(FullEnv)
InitDeep == InitWith(DeepEnv)

Next ==
  \/ \E r \in DOMAIN req : StartRequest(r)
  \/ \E p \in 1..Len(promises) : SelectionSettles(p)
  \/ \E r \in DOMAIN req : ModelCompletes(r)
  \/ \E r \in DOMAIN req : ToolReturns(r)
  \/ \E r \in DOMAIN req : ForcedCompletes(r)
  \/ \E r \in DOMAIN req : CompactCompletes(r)
  \/ \E r \in DOMAIN req : CommandToolReturns(r)
  \/ UpdateRuntime

\* every input, loops of up to MaxIterationsCap iterations
Spec == Init /\ [][Next]_vars

\* few inputs, loops of up to MaxDeepIterations iterations
SpecDeep == InitDeep /\ [][Next]_vars

\* concurrent requests
InitTwo == InitWith(TwoEnv)
SpecTwo == InitTwo /\ [][Next]_vars

\* requests that can be cancelled, loops of up to MaxCancelIterations
InitCancel == InitWith(CancelEnv)

NextCancel ==
  \/ Next
  \/ \E r \in DOMAIN req : Cancel(r)

SpecCancel == InitCancel /\ [][NextCancel]_vars

\* ------------------------------------------------------------------------
\* The codec on its own: parseAgentAction applied to bounded texts
\* ------------------------------------------------------------------------
\* pieces of model output: prose, objects, fenced blocks
Segments ==
  { <<"x">>, <<"s">>, <<"q">>, <<"b">>, <<"}">>,
    <<"{", "F", "}">>, <<"{", "T", "}">>, <<"{", "x", "}">>, <<"{", "}">>,
    <<"{", "F", "C", "q", "}", "q", "}">>,
    <<"f", "{", "T", "I", "{", "AB", "}", "}", "f">>,
    <<"f", "j", "s", "{", "F", "R", "}", "s", "f">>,
    <<"f", "x", "f">>, <<"f">> }

RECURSIVE Flatten(_)
Flatten(ss) == IF ss = <<>> THEN <<>> ELSE Head(ss) \o Flatten(Tail(ss))

Texts == { Flatten(ss) : ss \in UNION { [1..n -> Segments] : n \in 1..MaxSegments } }

InitParse ==
  /\ modelOutput \in Texts
  /\ parseResult = NoParse
  /\ call = NoCall
  /\ env = FullEnv
  /\ settings = [maxIterations |-> 1, modelFamily |-> ""]
  /\ modelPromise = 0
  /\ promises = <<>>
  /\ configChanges = 0
  /\ req = [r \in {} |-> IdleRequest]

\* the codec runs on the text
ParseText ==
  /\ ~parseResult.done
  /\ parseResult' = [done |-> TRUE,
                     action |-> parseAgentAction(modelOutput),
                     firstObject |-> extractFirstJsonObject(Trim(modelOutput))]
  /\ UNCHANGED <<settings, modelPromise, promises, configChanges, req, env, modelOutput, call>>

NextParse == ParseText

SpecParse == InitParse /\ [][NextParse]_vars

\* ------------------------------------------------------------------------
\* Pure functions on their own: one function applied to one bounded input
\* ------------------------------------------------------------------------
Pending(fn, input) == [fn |-> fn, input |-> input, done |-> FALSE, output |-> Null]

\* values of the four properties normalizeAction reads
TypeValues ==
  { Undefined, JsNull, JsNumber(1), JsString(<<>>),
    JsString(<<"final">>), JsString(<<"Final">>), JsString(<<"FINAL">>),
    JsString(<<"s", "final", "s">>),
    JsString(<<"tool">>), JsString(<<"TOOL">>), JsString(<<"tool", "s">>),
    JsString(<<"other">>),
    JsArray(<<JsString(<<"final">>)>>), JsArray(<<JsString(<<"tool">>)>>) }
ToolValues ==
  { Undefined, JsNumber(1), JsString(<<>>), JsString(<<"s">>),
    JsString(<<"t">>), JsString(<<"s", "t">>) }
ContentValues ==
  { Undefined, JsNull, JsNumber(0), JsString(<<>>), JsString(<<"done">>) }
InputValues ==
  { Undefined, JsNull, JsString(<<"x">>), JsObject(<<>>), JsObject(<<"a">>) }

\* what JSON.parse can hand to normalizeAction
ParsedValues ==
  { JsNull, JsNumber(1), JsString(<<"final">>), JsArray(<<>>), JsObject(<<"a">>) }
  \cup { [kind |-> "action", type |-> ty, tool |-> to, content |-> c, input |-> i] :
           ty \in TypeValues, to \in ToolValues, c \in ContentValues, i \in InputValues }

\* tool results: ok, output text, optional error text, optional metadata
ToolResults ==
  [ok : BOOLEAN,
   output : {<<>>, <<"out">>, <<"q", "x", "q">>, <<"b", "}">>, <<",", "null">>},
   error : {Undefined, JsString(<<>>), JsString(<<"e">>), JsString(<<"q", "{">>)},
   metadata : {Undefined, JsObject(<<>>), JsObject(<<"a">>)}]

\* response parts: the shapes of the chat API and others
PartValues ==
  { JsString(<<"plain">>),
    Part(JsString(<<"v">>), Undefined),
    Part(Part(JsString(<<"vv">>), Undefined), Undefined),
    Part(Undefined, JsString(<<"t">>)),
    Part(JsString(<<>>), JsString(<<"t">>)),
    Part(Undefined, Undefined) }

\* history turns: request turns, response turns, turns with both, others
TurnValues ==
  { Turn(JsString(<<"hi">>), Undefined),
    Turn(JsString(<<"s", "hi", "s">>), Undefined),
    Turn(JsString(<<"s">>), Undefined),
    Turn(JsString(<<"hi">>), JsArray(<<Part(JsString(<<"v">>), Undefined)>>)),
    Turn(Undefined, JsArray(<<>>)),
    Turn(Undefined, JsArray(<<Part(JsString(<<"v">>), Undefined),
                              Part(Undefined, Undefined),
                              Part(Undefined, JsString(<<"t">>))>>)),
    JsNull }
  \cup { Turn(Undefined, JsArray(<<part>>)) : part \in PartValues }

Histories ==
  { Undefined }
  \cup { JsArray(turns) : turns \in UNION { [1..n -> TurnValues] : n \in 0..MaxTurns } }

PureCalls ==
  { Pending("normalizeAction", v) : v \in ParsedValues }
  \cup { Pending("toModelMessages", history) : history \in Histories }
  \cup { Pending("formatToolObservation", result) : result \in ToolResults }

InitPure ==
  /\ call \in PureCalls
  /\ modelOutput = <<>>
  /\ parseResult = NoParse
  /\ env = FullEnv
  /\ settings = [maxIterations |-> 1, modelFamily |-> ""]
  /\ modelPromise = 0
  /\ promises = <<>>
  /\ configChanges = 0
  /\ req = [r \in {} |-> IdleRequest]

Others == <<settings, modelPromise, promises, configChanges, req, env,
            modelOutput, parseResult>>

Normalize ==
  /\ call.fn = "normalizeAction" /\ ~call.done
  /\ call' = [call EXCEPT !.done = TRUE, !.output = normalizeAction(call.input)]
  /\ UNCHANGED Others

FormatObservation ==
  /\ call.fn = "formatToolObservation" /\ ~call.done
  /\ call' = [call EXCEPT !.done = TRUE,
                          !.output = formatToolObservation("t", call.input)]
  /\ UNCHANGED Others

ConvertHistory ==
  /\ call.fn = "toModelMessages" /\ ~call.done
  /\ call' = [call EXCEPT !.done = TRUE, !.output = toModelMessages(call.input)]
  /\ UNCHANGED Others

NextPure ==
  \/ Normalize
  \/ ConvertHistory
  \/ FormatObservation

SpecPure == InitPure /\ [][NextPure]_vars

\* ------------------------------------------------------------------------
\* Claims about the pure functions
\* ------------------------------------------------------------------------
Returned(fn) == call.fn = fn /\ call.done

\* type is a string equal to word when case is ignored
TypeIs(value, word) ==
  /\ value.kind = "action"
  /\ value.type.kind = "string"
  /\ toLowerCase(value.type.text) = <<word>>

\* C11: normalization yields Final exactly when type equals 'final' ignoring
\* case, its content the given string or the empty string; it yields Tool
\* exactly when type equals 'tool' ignoring case and the tool name is a
\* non-empty string, its input the given object or the empty object; every
\* other value is rejected.
C11_Normalization ==
  Returned("normalizeAction") =>
    LET value == call.input IN
    IF TypeIs(value, "final") THEN
      call.output = FinalAction(IF value.content.kind = "string"
                                THEN value.content.text ELSE <<>>)
    ELSE IF /\ TypeIs(value, "tool")
            /\ value.tool.kind = "string"
            /\ value.tool.text # <<>> THEN
      /\ call.output # Null
      /\ call.output.type = "tool"
      /\ call.output.input = IF value.input.kind = "plain" THEN value.input.keys ELSE <<>>
    ELSE call.output = Null

\* the values read back from an observation text: what JSON.parse gives
\* for the text after the marker line
ReadBack(observation) == parsePayload(SubSeqFrom(observation, 3))

\* C12: parsing the JSON object after the marker line of
\* formatToolObservation(name, result) recovers the ok, output, error and
\* metadata of the result, for ok true or false, an empty or non-empty
\* output, an absent, empty or non-empty error and an absent or present
\* metadata (an absent error reads back as null, an absent metadata as absent).
C12_ObservationRoundTrip ==
  Returned("formatToolObservation") =>
    LET result == call.input
        back == ReadBack(call.output)
    IN /\ SubSeq(call.output, 1, 2) = <<"TOOL_RESULT", "nl">>
       /\ back # Null
       /\ back.ok = [kind |-> "boolean", b |-> result.ok]
       /\ back.output = JsString(result.output)
       /\ back.error = (IF result.error = Undefined THEN JsNull ELSE result.error)
       /\ back.metadata = result.metadata

\* the text of a response fragment in one of the four shapes: a plain
\* string, {value: string}, {value: {value: string}}, {text: string}
ShapeText(fragment) ==
  IF fragment.kind = "string" THEN fragment.text
  ELSE IF fragment.kind # "part" THEN <<>>
  ELSE IF fragment.value.kind = "string" THEN fragment.value.text
  ELSE IF fragment.value.kind = "part" /\ fragment.value.value.kind = "string"
    THEN fragment.value.value.text
  ELSE IF fragment.text.kind = "string" THEN fragment.text.text
  ELSE <<>>

HasPrompt(turn) ==
  turn.kind = "turn" /\ turn.prompt.kind = "string" /\ Trim(turn.prompt.text) # <<>>

HasResponseText(turn) ==
  /\ turn.kind = "turn"
  /\ turn.response.kind = "array"
  /\ \E k \in 1..Len(turn.response.items) : ShapeText(turn.response.items[k]) # <<>>

\* the roles of the messages the turns stand for, turn by turn
RECURSIVE RolesOf(_)
RolesOf(turns) ==
  IF turns = <<>> THEN <<>>
  ELSE (IF HasPrompt(Head(turns)) THEN <<"User">>
        ELSE IF HasResponseText(Head(turns)) THEN <<"Assistant">>
        ELSE <<>>)
       \o RolesOf(Tail(turns))

\* C13: toModelMessages emits at most one message per turn, in turn order and
\* without deduplication: a User message for a turn with a prompt, otherwise
\* an Assistant message for a turn with response text, otherwise nothing.
C13_OneMessagePerTurn ==
  (Returned("toModelMessages") /\ call.input.kind = "array") =>
    /\ Len(call.output) <= Len(call.input.items)
    /\ [k \in 1..Len(call.output) |-> call.output[k].role] = RolesOf(call.input.items)
    /\ \A k \in 1..Len(call.output) :
         call.output[k].role = "User" =>
           \E j \in 1..Len(call.input.items) :
             /\ HasPrompt(call.input.items[j])
             /\ call.output[k].text = Trim(call.input.items[j].prompt.text)

\* C14: a response fragment in each of the four shapes gives its text: a turn
\* without a prompt whose only fragment has a non-empty text in one of the
\* shapes yields one Assistant message with that text.
C14_FragmentShapes ==
  ( /\ Returned("toModelMessages")
    /\ call.input.kind = "array"
    /\ Len(call.input.items) = 1
    /\ call.input.items[1].kind = "turn"
    /\ call.input.items[1].prompt = Undefined
    /\ call.input.items[1].response.kind = "array"
    /\ Len(call.input.items[1].response.items) = 1
    /\ ShapeText(call.input.items[1].response.items[1]) # <<>> )
  => call.output
       = <<HistoryMessage("Assistant", ShapeText(call.input.items[1].response.items[1]))>>

\* ------------------------------------------------------------------------
\* Claims about the codec
\* ------------------------------------------------------------------------
Valid(candidate) == normalizeAction(JSONparse(candidate)) # Null

\* positions of the fences of a text, in increasing order
FencePositions(text) ==
  LET P == { i \in 1..Len(text) : text[i] = "f" }
  IN [k \in 1..Cardinality(P) |->
        CHOOSE i \in P : Cardinality({ j \in P : j < i }) = k - 1]

\* the inner content of the k-th fenced block: what lies between its
\* fences, without the json tag and without surrounding blanks
FencedBlock(text, k) ==
  LET fp == FencePositions(text)
      open == fp[2 * k - 1]
      close == fp[2 * k]
      tagged == open + 1 < close /\ text[open + 1] = "j"
  IN Trim(SubSeq(text, IF tagged THEN open + 2 ELSE open + 1, close - 1))

\* the candidates in the order the claim gives
CandidatesInOrder(rawOutput) ==
  LET text == Trim(rawOutput)
      blocks == Len(FencePositions(text)) \div 2
      object == extractFirstJsonObject(text)
  IN (IF text # <<>> /\ text[1] = "{" /\ text[Len(text)] = "}" THEN <<text>> ELSE <<>>)
     \o [k \in 1..blocks |-> FencedBlock(text, k)]
     \o (IF object # <<>> THEN <<object>> ELSE <<>>)

\* C9: parseAgentAction returns the normalization of the first candidate, in
\* the order whole text, fenced blocks in order of appearance, first balanced
\* object, that parses as JSON and normalizes, and null exactly when no
\* candidate does.
C9_CandidateOrder ==
  parseResult.done =>
    LET c == CandidatesInOrder(modelOutput)
        good == { k \in 1..Len(c) : Valid(c[k]) }
    IN IF good = {} THEN parseResult.action = Null
       ELSE /\ parseResult.action # Null
            /\ \E k \in good :
                 /\ \A j \in good : k <= j
                 /\ parseResult.action = normalizeAction(JSONparse(c[k]))

\* a fenced block holding a tool action wins over a later first balanced
\* object holding a final action
C9_Witness ==
  /\ parseResult.done
  /\ parseResult.action.type = "tool"
  /\ LET c == CandidatesInOrder(modelOutput) IN
       /\ Len(c) >= 2
       /\ Valid(c[Len(c)])
       /\ normalizeAction(JSONparse(c[Len(c)])).type = "final"

ProseTokens == {"x", "s", "q", "b", "}"}
IsProse(text) == \A i \in 1..Len(text) : text[i] \in ProseTokens

ActionObjects ==
  { <<"{", "F", "}">>, <<"{", "T", "}">>, <<"{", "F", "C", "q", "}", "q", "}">> }

\* C10: for prose, one well-formed action object, prose, the balanced-brace
\* scan returns exactly that object and the text parses to its action,
\* whatever non-brace characters (and stray closing braces) the prose holds.
C10_ScanFindsEmbeddedObject ==
  parseResult.done =>
    \A i \in 1..Len(modelOutput) : \A j \in i..Len(modelOutput) :
      ( /\ SubSeq(modelOutput, i, j) \in ActionObjects
        /\ IsProse(SubSeq(modelOutput, 1, i - 1))
        /\ IsProse(SubSeq(modelOutput, j + 1, Len(modelOutput))) )
      => /\ parseResult.firstObject = SubSeq(modelOutput, i, j)
         /\ parseResult.action = normalizeAction(JSONparse(SubSeq(modelOutput, i, j)))

\* ------------------------------------------------------------------------
\* Claims about the agent loop
\* ------------------------------------------------------------------------
Tr(r) == req[r].trace
At(r, kind) == { i \in 1..Len(Tr(r)) : Tr(r)[i].ev = kind }
After(r, i) == SubSeq(Tr(r), i + 1, Len(Tr(r)))

\* the action each text a model call can return parses to
ParsedCompletions == [t \in { streamToText(c, Len(c)) : c \in Completions } |-> parseAgentAction(t)]
ActionAt(r, i) == ParsedCompletions[Tr(r)[i].text]

\* the request went through the model-driven loop
InLoop(r) == req[r].modelMessages # <<>>

\* completions of the request's model calls, of the loop and forced
ModelTexts(r) == At(r, "completion") \cup At(r, "finalAttempt")

\* completions of the loop that ask for a tool
ToolRequests(r) == { i \in At(r, "completion") : ActionAt(r, i).type = "tool" }

HasPrev(S, i) == \E k \in S : k < i
Prev(S, i) == CHOOSE k \in S : k < i /\ \A m \in S : m < i => m <= k

\* the message a push event at position i of the trace has appended
PushedAt(r, i) ==
  req[r].modelMessages[Cardinality({ k \in At(r, "push") : k <= i })]

\* the loop goes on to its next model call from position i of the trace
GoesOnAt(r, i) ==
  \/ /\ Len(Tr(r)) >= i /\ Tr(r)[i].ev = "sendRequest"
  \/ /\ Len(Tr(r)) >= i + 2
     /\ Tr(r)[i] = Ev("warning", <<"Reached iteration limit">>)
     /\ Tr(r)[i + 2].ev = "sendRequest"

\* the bound on the loop iterations of a request: maxIterations, and the
\* largest value a loop test has read once the configuration has changed
IterationBound(r) ==
  IF configChanges = 0 THEN settings.maxIterations ELSE req[r].iterationLimit

\* C1: a request that enters the loop makes at most maxIterations + 1 model
\* calls, whatever the completions and tool results are, and is past its last
\* loop iteration once it has made that many.
C1_BoundedModelCalls ==
  \A r \in DOMAIN req :
    InLoop(r) =>
      LET calls == Cardinality(At(r, "sendRequest")) IN
      /\ calls <= IterationBound(r) + 1
      /\ calls = IterationBound(r) + 1 => req[r].pc \in {"forcedCall", "done", "failed"}

\* a request that used every iteration on tools and ended with the forced call
C1_Witness ==
  \E r \in DOMAIN req :
    /\ req[r].pc = "done"
    /\ configChanges = 0
    /\ settings.maxIterations = MaxIterationsCap
    /\ Cardinality(At(r, "sendRequest")) = MaxIterationsCap + 1
    /\ Cardinality(At(r, "execute")) = MaxIterationsCap

\* C2: when two consecutive completions of a request are unparsable, the raw
\* text of the second is emitted as the answer and the request ends with no
\* further model call and no tool execution.
C2_SecondUnparsableEndsRequest ==
  \A r \in DOMAIN req :
    LET M == ModelTexts(r) IN
    \A j \in M :
    ( /\ ActionAt(r, j) = Null
      /\ HasPrev(M, j)
      /\ ActionAt(r, Prev(M, j)) = Null )
    => LET rest == After(r, j) IN
       /\ req[r].pc = "done"
       /\ Len(rest) >= 2
       /\ rest[Len(rest) - 1] = Ev("markdown", Tr(r)[j].text)
       /\ rest[Len(rest)] = Ev("return", <<"{}">>)
       /\ \A k \in 1..Len(rest) : rest[k].ev \notin {"sendRequest", "execute"}

\* two unparsable completions in a row inside the loop, after a tool call
C2_Witness ==
  \E r \in DOMAIN req : \E j \in At(r, "completion") :
    /\ HasPrev(At(r, "completion"), j)
    /\ ActionAt(r, Prev(At(r, "completion"), j)) = Null
    /\ ActionAt(r, j) = Null
    /\ At(r, "execute") # {}
    /\ req[r].pc = "done"

\* the tool request at i is at least the third identical one in a row
ThirdInRow(r, i) ==
  LET T == ToolRequests(r) IN
  /\ HasPrev(T, i)
  /\ HasPrev(T, Prev(T, i))
  /\ ActionAt(r, Prev(T, i)) = ActionAt(r, i)
  /\ ActionAt(r, Prev(T, Prev(T, i))) = ActionAt(r, i)

\* C3: of identical tool requests in a row the first two are handed to the
\* registry; the third and every later one is not executed, a TOOL_RESULT
\* observation with ok = false is appended instead and the loop goes on.
C3_RepeatGuard ==
  \A r \in DOMAIN req : \A i \in ToolRequests(r) :
    IF ThirdInRow(r, i)
    THEN /\ Len(Tr(r)) >= i + 4
         /\ Tr(r)[i + 2] = Ev("warning", <<"Blocked repeated tool call", ActionAt(r, i).tool>>)
         /\ Tr(r)[i + 3] = Ev("push", <<"User", "TOOL_RESULT", "failed">>)
         /\ PushedAt(r, i + 3).payload.tool = ActionAt(r, i).tool
         /\ PushedAt(r, i + 3).payload.ok = FALSE
         /\ GoesOnAt(r, i + 4)
    ELSE /\ Len(Tr(r)) >= i + 3
         /\ Tr(r)[i + 2] = Ev("progress", <<"Running tool", ActionAt(r, i).tool>>)
         /\ Tr(r)[i + 3] = Ev("execute", <<ActionAt(r, i).tool>>
                                           \o JSONstringify(ActionAt(r, i).input))

\* four identical tool requests in a row: two executed, two blocked, and
\* the loop still going on
C3_Witness ==
  \E r \in DOMAIN req :
    /\ Cardinality({ i \in ToolRequests(r) : ThirdInRow(r, i) }) >= 2
    /\ Cardinality(At(r, "execute")) = 2
    /\ req[r].pc = "modelCall"

RefusalWarning == Ev("warning", <<"Search capability is available">>)

\* C4: the refusal heuristic triggers at most one corrective retry per
\* request; every Final action after it is emitted as the answer and ends the
\* request, also when its content still matches the heuristic.
C4_OneRefusalRetry ==
  \A r \in DOMAIN req :
    /\ Cardinality({ i \in At(r, "warning") : Tr(r)[i] = RefusalWarning }) <= 1
    /\ \A i \in At(r, "completion") :
         ( /\ ActionAt(r, i).type = "final"
           /\ \E w \in 1..(i - 1) : Tr(r)[w] = RefusalWarning )
         => /\ req[r].pc = "done"
            /\ After(r, i) =
                 << Ev("push", <<"Assistant", "completion", "ok">>),
                    Ev("markdown", IF ActionAt(r, i).content # <<>>
                                   THEN ActionAt(r, i).content ELSE <<"Done.">>),
                    Ev("return", <<"{}">>) >>

\* a second refusal, emitted as the answer
C4_Witness ==
  \E r \in DOMAIN req : \E i \in At(r, "completion") :
    /\ \E w \in 1..(i - 1) : Tr(r)[w] = RefusalWarning
    /\ ActionAt(r, i).type = "final"
    /\ looksLikeSearchCapabilityRefusal(ActionAt(r, i).content)
    /\ req[r].pc = "done"

\* the key/value pairs of an input object, whatever their order
Pairs(input) == { input[k] : k \in 1..Len(input) }

\* C5: the repeat signature does not depend on the key order of the input:
\* a tool request whose input has the key/value pairs of the previous tool
\* request's input, in any order, has the same signature and counts as its
\* repeat.
C5_SignatureIgnoresKeyOrder ==
  \A r \in DOMAIN req : \A i \in ToolRequests(r) :
    ( /\ HasPrev(ToolRequests(r), i)
      /\ ActionAt(r, Prev(ToolRequests(r), i)).tool = ActionAt(r, i).tool
      /\ Pairs(ActionAt(r, Prev(ToolRequests(r), i)).input) = Pairs(ActionAt(r, i).input) )
    => /\ currentToolSignature(ActionAt(r, Prev(ToolRequests(r), i)))
            = currentToolSignature(ActionAt(r, i))
       /\ (\A k \in ToolRequests(r) : k <= i) => req[r].repeatedToolCallCount >= 2

LimitWarning == Ev("warning", <<"Reached iteration limit">>)

\* C6: once the iteration budget is used up, the forced-completion
\* instruction is appended and exactly one more model call is made; its
\* Final content, or else its raw text, is emitted; no tool is executed.
C6_ForcedCompletion ==
  \A r \in DOMAIN req : \A w \in At(r, "warning") :
    Tr(r)[w] = LimitWarning =>
      LET rest == After(r, w) IN
      /\ Len(rest) >= 2
      /\ rest[1] = Ev("push", <<"User", "budget", "ok">>)
      /\ PushedAt(r, w + 1).kind = "budget"
      /\ rest[2].ev = "sendRequest"
      /\ Len(rest) = 2 <=> req[r].pc = "forcedCall"
      /\ Len(rest) > 2 =>
           \/ /\ rest[3].ev = "throw"
              /\ req[r].pc = "failed"
           \/ /\ Len(rest) = 5
              /\ rest[3].ev = "finalAttempt"
              /\ rest[4] = Ev("markdown",
                     IF ActionAt(r, w + 3).type = "final"
                     THEN ActionAt(r, w + 3).content ELSE rest[3].text)
              /\ rest[5] = Ev("return", <<"{}">>)
              /\ req[r].pc = "done"
      /\ \A k \in 3..Len(rest) : rest[k].ev \notin {"sendRequest", "execute"}

\* the forced call answered with a tool request, emitted as raw text
C6_Witness ==
  \E r \in DOMAIN req : \E i \in At(r, "finalAttempt") :
    /\ ActionAt(r, i).type = "tool"
    /\ Tr(r)[i + 1] = Ev("markdown", Tr(r)[i].text)
    /\ req[r].pc = "done"

\* C7: a throwing model call (or model resolution) aborts the request at
\* once: nothing is started after it, no answer is emitted, and handleRequest
\* returns one structured failure.
C7_ThrowAbortsRequest ==
  \A r \in DOMAIN req :
    /\ \A i \in At(r, "throw") :
         /\ After(r, i) = << Ev("warning", <<"Agent execution failed">>),
                            Ev("return", <<"errorDetails">>) >>
         /\ At(r, "markdown") = {}
         /\ Cardinality(At(r, "return")) = 1
         /\ req[r].pc = "failed"
    /\ req[r].pc = "failed" => At(r, "throw") # {}

\* a model call that throws after a tool has run
C7_Witness ==
  \E r \in DOMAIN req : \E i \in At(r, "throw") :
    /\ Tr(r)[i].text = <<"sendRequest">>
    /\ At(r, "toolResult") # {}
    /\ req[r].pc = "failed"

\* C8: ToolRegistry.execute never raises: an unregistered name and a tool
\* that throws both give a result with ok = false (for the unregistered name
\* with the registered names in its error); the loop appends the failed
\* observation and goes on to the next model call.
C8_ToolFailureIsObservation ==
  \A r \in DOMAIN req :
    /\ \A i \in At(r, "throw") : Tr(r)[i].text # <<"execute">>
    /\ InLoop(r) =>
         /\ \A i \in At(r, "execute") :
              Len(Tr(r)) > i =>
                /\ Tr(r)[i + 1].ev = "toolResult"
                /\ Len(Tr(r)) >= i + 3
                /\ Tr(r)[i + 2] = Ev("push", <<"User", "TOOL_RESULT", Tr(r)[i + 1].text[1]>>)
                /\ PushedAt(r, i + 2).payload.tool = Tr(r)[i].text[1]
                /\ GoesOnAt(r, i + 3)
         /\ \A i \in At(r, "execute") :
              Tr(r)[i].text[1] = "nope" =>
                /\ Tr(r)[i + 1] = Ev("toolResult", <<"failed">>)
                /\ PushedAt(r, i + 2).payload.ok = FALSE
                /\ PushedAt(r, i + 2).payload.error
                     = JsString(<<"Unknown tool", "nope", "Available">> \o getToolNames)
         /\ \A m \in 1..Len(req[r].modelMessages) :
              req[r].modelMessages[m].payload.error = JsString(<<"boom">>)
                => req[r].modelMessages[m].payload.ok = FALSE

\* an unregistered tool and a throwing tool in one request, the loop going on
C8_Witness ==
  \E r \in DOMAIN req :
    /\ \E i \in At(r, "execute") : Tr(r)[i].text[1] = "nope"
    /\ \E m \in 1..Len(req[r].modelMessages) :
         req[r].modelMessages[m].payload.error = JsString(<<"boom">>)
    /\ req[r].pc \in {"modelCall", "forcedCall"}

\* ------------------------------------------------------------------------
\* Claims about cancellation
\* ------------------------------------------------------------------------
Cancelled(r) == req[r].cancelledAt # -1

\* C15: once the token of a request is cancelled, no new model call and no
\* tool execution is started for the request, and no chunk that arrives
\* later is added to a completion text.
C15_CancellationStopsCalls ==
  \A r \in DOMAIN req :
    Cancelled(r) =>
      \A j \in 1..Len(Tr(r)) :
        j > req[r].cancelledAt => Tr(r)[j].ev \notin {"sendRequest", "execute"}

\* ------------------------------------------------------------------------
\* Claims about the model in use
\* ------------------------------------------------------------------------
\* the model reported by the "Using model" progress event of a request
ReportedModels(r) ==
  { Tr(r)[i].text[2] : i \in { k \in At(r, "progress") : Tr(r)[k].text[1] = "Using model" } }

\* C16: every model call of a request (loop, forced completion, /compact)
\* uses the model resolved when the request started: request.model when it
\* is usable, otherwise the default the cached selection gave; a
\* configuration change during the request does not switch it.
C16_OneModelPerRequest ==
  \A r \in DOMAIN req :
    At(r, "sendRequest") # {} =>
      \E model \in ReportedModels(r) :
        /\ ReportedModels(r) = {model}
        /\ \A i \in At(r, "sendRequest") : Tr(r)[i].text = <<model>>
        /\ IF isUsableModel(req[r].request.model) THEN model = req[r].request.model
           ELSE \E p \in 1..Len(promises) :
                  promises[p].state = "fulfilled" /\ model = promises[p].model

\* a request on the cached default that made model calls before and after
\* a configuration change to another model family
C16_Witness ==
  \E r \in DOMAIN req :
    /\ req[r].pc = "done"
    /\ ~isUsableModel(req[r].request.model)
    /\ configChanges = 1
    /\ Len(promises) = 1
    /\ promises[1].family # settings.modelFamily
    /\ modelPromise = 0
    /\ Cardinality(At(r, "sendRequest")) >= 3

\* a request that has resolved the default model (it has no usable model
\* of its own)
OnDefault(r) ==
  /\ ~isUsableModel(req[r].request.model)
  /\ ReportedModels(r) # {}

\* C17: a configuration change invalidates the cached default model as a
\* whole: a default-model resolution that starts after the change gets a
\* fresh selection made with the new settings, and between two changes all
\* resolutions, of concurrent requests too, start at most one selection.
C17_CacheInvalidatedOnChange ==
  /\ \A p1, p2 \in 1..Len(promises) :
       promises[p1].epoch = promises[p2].epoch => p1 = p2
  /\ modelPromise # 0 =>
       /\ promises[modelPromise].epoch = configChanges
       /\ promises[modelPromise].family = settings.modelFamily
  /\ \A r \in DOMAIN req :
       /\ req[r].pc = "resolveModel" =>
            promises[req[r].awaiting].epoch = req[r].epoch
       /\ (OnDefault(r) /\ req[r].epoch = configChanges) =>
            ReportedModels(r) = {DefaultModel(settings.modelFamily)}

\* two requests on the default model, one resolved before and one after a
\* change of the model family: two selections, one per configuration
C17_Witness ==
  /\ configChanges = 1
  /\ Len(promises) = 2
  /\ promises[1].family # promises[2].family
  /\ \E r1, r2 \in DOMAIN req :
       /\ OnDefault(r1) /\ req[r1].epoch = 0
       /\ OnDefault(r2) /\ req[r2].epoch = 1
       /\ ReportedModels(r1) # ReportedModels(r2)

\* ------------------------------------------------------------------------
\* Claims about the calls in flight
\* ------------------------------------------------------------------------
CallEvents == {"sendRequest", "execute"}
ReturnEvents == {"completion", "finalAttempt", "response", "toolResult", "throw"}

\* the external calls of a request that have started and not yet completed
InFlight(r) ==
  { i \in 1..Len(Tr(r)) :
      /\ Tr(r)[i].ev \in CallEvents
      /\ \A j \in (i + 1)..Len(Tr(r)) : Tr(r)[j].ev \notin ReturnEvents }

\* C18: a request never has more than one external call in flight: a model
\* call or tool execution is started only when every earlier call of the
\* request has completed, and a tool execution only after the model call
\* that asked for it has completed.
C18_OneCallInFlight ==
  \A r \in DOMAIN req :
    /\ Cardinality(InFlight(r)) <= 1
    /\ \A i \in 1..Len(Tr(r)) :
         (Tr(r)[i].ev \in CallEvents /\ i < Len(Tr(r))) =>
           Tr(r)[i + 1].ev \in ReturnEvents
    /\ InFlight(r) # {} <=>
         req[r].pc \in {"modelCall", "forcedCall", "compactCall", "toolCall", "commandTool"}
    /\ \A i \in At(r, "execute") :
         InLoop(r) => \E j \in At(r, "completion") : j < i /\ ActionAt(r, j).type = "tool"

\* a tool execution in flight in the second iteration of a loop
C18_Witness ==
  \E r \in DOMAIN req :
    /\ req[r].pc = "toolCall"
    /\ Cardinality(At(r, "sendRequest")) = 2
    /\ Cardinality(At(r, "toolResult")) = 1
    /\ Cardinality(InFlight(r)) = 1

\* ------------------------------------------------------------------------
\* Claims about slash commands that map to a tool
\* ------------------------------------------------------------------------
SearchCommands == {"search", "workspacesearch"}
WebCommands == {"websearch", "web"}
HelloCommands == {"hello", "helloworld"}

\* the tool a slash command names, "" for the commands that name none
ToolOfCommand(command) ==
  IF normalizeCommand(command) \in SearchCommands THEN "search_text"
  ELSE IF normalizeCommand(command) \in WebCommands THEN "web_search"
  ELSE IF normalizeCommand(command) \in HelloCommands THEN "hello_world"
  ELSE ""

\* the texts the direct answer of a tool can be
DirectResponses(toolName) ==
  { formatDirectToolResponse(toolName, execute(outcome)) : outcome \in env.toolOutcomes }

\* C19: a request whose slash command maps to a tool makes no model call
\* and resolves no model; with a prompt, or for /hello without one, it
\* executes the mapped tool exactly once and emits the result directly;
\* a command that requires a prompt, given an empty one, executes no tool
\* and emits only the usage message.
C19_CommandToolRequests ==
  \A r \in DOMAIN req :
    (req[r].pc # "idle" /\ ToolOfCommand(req[r].request.command) # "") =>
      LET request == req[r].request
          command == normalizeCommand(request.command)
          tool == ToolOfCommand(request.command)
      IN
      /\ At(r, "sendRequest") = {}
      /\ req[r].pc \in {"commandTool", "done"}
      /\ \A i \in At(r, "progress") : Tr(r)[i].text = <<"Running tool", tool>>
      /\ IF request.prompt = "" /\ command \notin HelloCommands
         THEN /\ At(r, "execute") = {}
              /\ req[r].pc = "done"
              /\ \E i \in 1..Len(Tr(r)) :
                   /\ At(r, "markdown") = {i}
                   /\ Tr(r)[i].text = <<"Usage", command>>
         ELSE /\ \E i \in 1..Len(Tr(r)) :
                   /\ At(r, "execute") = {i}
                   /\ Tr(r)[i].text[1] = tool
              /\ req[r].pc = "commandTool" => At(r, "markdown") = {}
              /\ req[r].pc = "done" =>
                   \E i, j \in 1..Len(Tr(r)) :
                     /\ At(r, "toolResult") = {i}
                     /\ At(r, "markdown") = {j}
                     /\ i < j
                     /\ Tr(r)[j].text \in DirectResponses(tool)

\* /hello without a prompt has run hello_world and answered
C19_Witness ==
  \E r \in DOMAIN req :
    /\ req[r].request.command = "hello"
    /\ req[r].request.prompt = ""
    /\ req[r].pc = "done"
    /\ Cardinality(At(r, "execute")) = 1
    /\ Cardinality(At(r, "markdown")) = 1

\* /Search without a prompt has answered with the usage message
C19_UsageWitness ==
  \E r \in DOMAIN req :
    /\ req[r].request.command = "Search"
    /\ req[r].pc = "done"
    /\ At(r, "execute") = {}

\* ------------------------------------------------------------------------
\* Claims about the transcript
\* ------------------------------------------------------------------------
\* the event after position i of the trace appends text as an Assistant
\* message
AppendedAfter(r, i) ==
  /\ i < Len(Tr(r))
  /\ Tr(r)[i + 1].ev = "push"
  /\ PushedAt(r, i + 1).role = "Assistant"
  /\ PushedAt(r, i + 1).text = Tr(r)[i].text

\* pushes of what the loop derives from a completion: a corrective
\* instruction or an observation
DerivedPushes(r) ==
  { j \in 1..Len(Tr(r)) :
      /\ Tr(r)[j].ev = "push"
      /\ Tr(r)[j].text[2] \in {"invalidFormat", "refusalGuidance", "TOOL_RESULT"} }

\* every raw completion of a model call of the request, of the loop, forced
\* or of /compact, is appended as an Assistant message
C20_EveryCompletionAppended ==
  \A r \in DOMAIN req :
    \A i \in ModelTexts(r) \cup At(r, "response") : AppendedAfter(r, i)

\* C20: every raw completion of a model call of a loop iteration is appended
\* to the transcript as an Assistant message, parsable or not, before any
\* corrective instruction or observation derived from it; the Assistant
\* messages of the transcript are these completions in order; the completion
\* of the forced-completion call and of /compact is not appended, the
\* request ends with it.
C20_LoopCompletionsAppended ==
  \A r \in DOMAIN req :
    /\ \A i \in At(r, "completion") : AppendedAfter(r, i)
    /\ LET completions == At(r, "completion")
           derived == DerivedPushes(r)
       IN \A j \in derived :
            /\ \E i \in completions : i + 1 < j
            /\ \A k \in derived :
                 k < j => \E i \in completions : k < i /\ i + 1 < j
    /\ Cardinality({ m \in 1..Len(req[r].modelMessages) :
                       req[r].modelMessages[m].role = "Assistant" })
         = Cardinality(At(r, "completion"))
    /\ \A i \in At(r, "finalAttempt") \cup At(r, "response") :
         \A j \in At(r, "push") : j < i

\* an unparsable completion was appended and then the corrective instruction
C20_Witness ==
  \E r \in DOMAIN req : \E i \in At(r, "completion") :
    /\ ActionAt(r, i) = Null
    /\ AppendedAfter(r, i)
    /\ i + 2 \in DerivedPushes(r)
    /\ PushedAt(r, i + 2).kind = "invalidFormat"

\* a forced completion was obtained and the transcript did not grow
C20_ForcedWitness ==
  \E r \in DOMAIN req : \E i \in At(r, "finalAttempt") :
    /\ ~AppendedAfter(r, i)
    /\ req[r].pc = "done"

\* ------------------------------------------------------------------------
\* Claims about the counters of the loop
\* ------------------------------------------------------------------------
DegradedWarning == Ev("warning", <<"Model returned non-JSON output">>)

\* C21: a parsed completion resets the count of parse failures: an
\* unparsable completion of the loop that is the first one, or whose
\* preceding completion parsed (a tool action, executed or blocked, or a
\* final action that was retried as a refusal), is followed by the
\* corrective instruction and the next model call (the forced call when the
\* budget is used up), never by the degraded raw-text answer.
C21_ParseResetsFailureCount ==
  \A r \in DOMAIN req :
    LET C == At(r, "completion") IN
    /\ \A j \in C :
         (ActionAt(r, j) = Null /\ (HasPrev(C, j) => ActionAt(r, Prev(C, j)) # Null)) =>
           /\ Len(Tr(r)) >= j + 3
           /\ Tr(r)[j + 2] = Ev("push", <<"User", "invalidFormat", "ok">>)
           /\ GoesOnAt(r, j + 3)
    /\ \A w \in 1..Len(Tr(r)) :
         Tr(r)[w] = DegradedWarning =>
           \E j \in C : /\ w = j + 2
                        /\ ActionAt(r, j) = Null
                        /\ HasPrev(C, j)
                        /\ ActionAt(r, Prev(C, j)) = Null
    /\ req[r].pc \in {"modelCall", "toolCall"} =>
         req[r].parseFailureCount =
           IF C # {} /\ ActionAt(r, CHOOSE j \in C : \A k \in C : k <= j) = Null
           THEN 1 ELSE 0

\* unparsable, a blocked tool call, unparsable again: the loop goes on to
\* a model call of the loop
C21_Witness ==
  \E r \in DOMAIN req : \E j \in At(r, "completion") :
    LET C == At(r, "completion") IN
    /\ ActionAt(r, j) = Null
    /\ HasPrev(C, j)
    /\ ThirdInRow(r, Prev(C, j))
    /\ \E k \in C : k < j /\ ActionAt(r, k) = Null
    /\ req[r].pc = "modelCall"
    /\ Tr(r)[j + 3].ev = "sendRequest"

\* ------------------------------------------------------------------------
\* Claims about the notifications
\* ------------------------------------------------------------------------
\* the progress notifications of a request that name a model
ModelNotices(r) ==
  { p \in 1..Len(Tr(r)) : Tr(r)[p].ev = "progress" /\ Tr(r)[p].text[1] = "Using model" }

\* the event before the tool dispatch at i is a progress notification that
\* names the tool
ToolNoticeBefore(r, i) ==
  /\ i > 1
  /\ Tr(r)[i - 1].ev = "progress"
  /\ Tr(r)[i - 1].text[1] \in {"Running tool", "Autonomous tool call"}
  /\ Tr(r)[i - 1].text[2] = Tr(r)[i].text[1]

\* every model call has a notification of its own, emitted after the
\* previous model call of the request, and every tool dispatch is
\* immediately preceded by the notification naming the tool
C22_NoticeBeforeEachModelCall ==
  \A r \in DOMAIN req :
    /\ \A i \in At(r, "sendRequest") :
         \E p \in ModelNotices(r) :
           /\ p < i
           /\ Tr(r)[p].text[2] = Tr(r)[i].text[1]
           /\ \A k \in At(r, "sendRequest") : k < i => k < p
    /\ \A i \in At(r, "execute") : ToolNoticeBefore(r, i)

\* C22: the model in use is notified once per request, after the model is
\* resolved and before the first model call, and every model call of the
\* request goes to the model that notification names; every tool dispatch
\* is immediately preceded by a progress notification naming the tool.
C22_NoticeOncePerRequest ==
  \A r \in DOMAIN req :
    /\ Cardinality(ModelNotices(r)) <= 1
    /\ \A i \in At(r, "sendRequest") :
         \E p \in ModelNotices(r) :
           /\ p < i
           /\ Tr(r)[p].text[2] = Tr(r)[i].text[1]
    /\ \A i \in At(r, "execute") : ToolNoticeBefore(r, i)

\* a second model call after a tool execution, with the one notification
\* of the model before the first call
C22_Witness ==
  \E r \in DOMAIN req :
    /\ Cardinality(At(r, "sendRequest")) = 2
    /\ Cardinality(At(r, "execute")) = 1
    /\ Cardinality(ModelNotices(r)) = 1
    /\ \A i \in At(r, "sendRequest") : \A p \in ModelNotices(r) : p < i
    /\ req[r].pc = "modelCall"

\* ------------------------------------------------------------------------
\* Claims about the refusal retry
\* ------------------------------------------------------------------------
\* the completion at i is the refusal, and no refusal was retried before it
FirstRefusal(r, i) ==
  /\ Tr(r)[i].text = Trim(FinalRefusal)
  /\ \A w \in 1..(i - 1) : Tr(r)[w] # RefusalWarning

StreamEvents == {"markdown", "warning", "progress"}

\* a refusal that is retried puts nothing on the stream of the user before
\* the corrective instruction is appended
C23_NothingEmittedOnRetry ==
  \A r \in DOMAIN req : \A i \in At(r, "completion") :
    FirstRefusal(r, i) =>
      /\ Len(Tr(r)) >= i + 2
      /\ Tr(r)[i + 1].ev \notin StreamEvents
      /\ Tr(r)[i + 2].ev \notin StreamEvents

\* C23: the first Final completion of a request that looks like a search
\* capability refusal is not answered: the loop warns that it retries,
\* appends the corrective instruction and goes on to the next model call;
\* no markdown is emitted before that call has returned.
C23_RefusalRetried ==
  \A r \in DOMAIN req : \A i \in At(r, "completion") :
    FirstRefusal(r, i) =>
      /\ Len(Tr(r)) >= i + 4
      /\ Tr(r)[i + 1] = Ev("push", <<"Assistant", "completion", "ok">>)
      /\ Tr(r)[i + 2] = RefusalWarning
      /\ Tr(r)[i + 3] = Ev("push", <<"User", "refusalGuidance", "ok">>)
      /\ GoesOnAt(r, i + 4)
      /\ \A k \in At(r, "markdown") :
           k > i => \E m \in ModelTexts(r) : i < m /\ m < k

\* a refusal as the second completion, retried, and the next call answered
C23_Witness ==
  \E r \in DOMAIN req : \E i \in At(r, "completion") :
    /\ FirstRefusal(r, i)
    /\ HasPrev(At(r, "completion"), i)
    /\ \E k \in At(r, "markdown") : k > i
    /\ req[r].pc = "done"

\* ------------------------------------------------------------------------
\* Claims about the final answer
\* ------------------------------------------------------------------------
\* the Final completions of the loop that are accepted as the answer
AcceptedFinals(r) ==
  { i \in At(r, "completion") :
      /\ ActionAt(r, i) # Null
      /\ ActionAt(r, i).type = "final"
      /\ Tr(r)[i + 2] # RefusalWarning }

\* the Final completions of the forced-completion call
ForcedFinals(r) ==
  { i \in At(r, "finalAttempt") :
      ActionAt(r, i) # Null /\ ActionAt(r, i).type = "final" }

\* the text emitted for an accepted Final action is its content, whatever
\* the content is, in the loop and after the forced-completion call
C24_AnswerIsContent ==
  \A r \in DOMAIN req :
    /\ \A i \in AcceptedFinals(r) : Tr(r)[i + 2] = Ev("markdown", ActionAt(r, i).content)
    /\ \A i \in ForcedFinals(r) : Tr(r)[i + 1] = Ev("markdown", ActionAt(r, i).content)

\* C24: the text emitted for a Final action the loop accepts is the
\* action's content when it is not empty and 'Done.' when it is; the
\* forced-completion call emits the content of a Final action as it is,
\* the empty string included; the request ends with that answer.
C24_AnswerIsContentOrDone ==
  \A r \in DOMAIN req :
    /\ \A i \in AcceptedFinals(r) :
         /\ Tr(r)[i + 2] = Ev("markdown", IF ActionAt(r, i).content = <<>>
                                          THEN <<"Done.">> ELSE ActionAt(r, i).content)
         /\ Tr(r)[i + 3] = Ev("return", <<"{}">>)
         /\ Len(Tr(r)) = i + 3
    /\ \A i \in ForcedFinals(r) :
         /\ Tr(r)[i + 1] = Ev("markdown", ActionAt(r, i).content)
         /\ Tr(r)[i + 2] = Ev("return", <<"{}">>)
         /\ Len(Tr(r)) = i + 2

\* a Final action without content accepted by the loop after a tool call
C24_Witness ==
  \E r \in DOMAIN req : \E i \in AcceptedFinals(r) :
    /\ ActionAt(r, i).content = <<>>
    /\ At(r, "execute") # {}
    /\ Tr(r)[i + 2] = Ev("markdown", <<"Done.">>)

\* a Final action without content returned by the forced-completion call
C24_ForcedWitness ==
  \E r \in DOMAIN req : \E i \in ForcedFinals(r) :
    /\ ActionAt(r, i).content = <<>>
    /\ Tr(r)[i + 1] = Ev("markdown", <<>>)

\* ------------------------------------------------------------------------
\* Claims about the repeat guard
\* ------------------------------------------------------------------------
\* no tool request of the request repeats the tool request before it
NoSuccessiveRepeat(r) ==
  LET T == ToolRequests(r) IN
  \A i \in T : HasPrev(T, i) => ActionAt(r, Prev(T, i)) # ActionAt(r, i)

BlockedWarnings(r) ==
  { w \in At(r, "warning") : Tr(r)[w].text[1] = "Blocked repeated tool call" }

\* C25: the repeat guard compares a tool request with the one before it
\* only: when no tool request of a request has the signature of the tool
\* request before it, every tool request is dispatched and none is blocked,
\* however often a signature comes back.
C25_AlternationNeverBlocked ==
  \A r \in DOMAIN req :
    NoSuccessiveRepeat(r) =>
      /\ BlockedWarnings(r) = {}
      /\ \A i \in ToolRequests(r) :
           /\ Len(Tr(r)) >= i + 3
           /\ Tr(r)[i + 3] = Ev("execute", <<ActionAt(r, i).tool>>
                                             \o JSONstringify(ActionAt(r, i).input))
      /\ InLoop(r) => Cardinality(At(r, "execute")) = Cardinality(ToolRequests(r))
      /\ (ToolRequests(r) # {} /\ req[r].pc \in {"modelCall", "toolCall"}) =>
           req[r].repeatedToolCallCount = 1

\* A, B, A, B, A: five tool requests of two signatures, all dispatched
C25_Witness ==
  \E r \in DOMAIN req :
    /\ NoSuccessiveRepeat(r)
    /\ Cardinality(ToolRequests(r)) = 5
    /\ Cardinality({ ActionAt(r, i) : i \in ToolRequests(r) }) = 2
    /\ Cardinality(At(r, "execute")) = 5

\* ------------------------------------------------------------------------
\* Claims about the growth of the transcript
\* ------------------------------------------------------------------------
IsPrefix(s, t) == Len(s) <= Len(t) /\ SubSeq(t, 1, Len(s)) = s

\* the seed of the loop's transcript: the system prompt and the task
SeedMessages == <<User("system"), User("task")>>

RolesFrom(messages, first) ==
  [k \in 1..(Len(messages) - first + 1) |-> messages[first + k - 1].role]

\* n times Assistant, User
Pairs_AssistantUser(n) ==
  [k \in 1..(2 * n) |-> IF k % 2 = 1 THEN "Assistant" ELSE "User"]

\* the transcript of a request in the loop is the seed, then one pair
\* Assistant, User for every iteration that went on, then what the
\* iteration under way has added
TranscriptShape(r) ==
  LET q == req[r]
      after == RolesFrom(q.modelMessages, Len(SeedMessages) + 1)
  IN
  InLoop(r) =>
    /\ IsPrefix(SeedMessages, q.modelMessages)
    /\ q.pc = "modelCall" => after = Pairs_AssistantUser(q.iteration - 1)
    /\ q.pc = "toolCall" =>
         after = Pairs_AssistantUser(q.iteration - 1) \o <<"Assistant">>
    /\ q.pc = "forcedCall" =>
         after = Pairs_AssistantUser(q.iteration - 1) \o <<"User">>
    /\ q.pc = "done" =>
         \E n \in 0..q.iteration :
           after \in { Pairs_AssistantUser(n) \o <<"Assistant">>,
                       Pairs_AssistantUser(n) \o <<"User">> }

\* C26: the transcript of a request is append-only: every step leaves the
\* earlier transcript as a prefix of the later one, and every loop
\* iteration that does not end the request adds exactly one Assistant
\* message followed by exactly one User message.
C26_TranscriptAppendOnly ==
  /\ [](\A r \in DOMAIN req : TranscriptShape(r))
  /\ [][\A r \in DOMAIN req : IsPrefix(req[r].modelMessages, req'[r].modelMessages)]_vars

\* three iterations that went on: the seed and three pairs
C26_Witness ==
  \E r \in DOMAIN req :
    /\ req[r].pc = "forcedCall"
    /\ req[r].iteration = MaxIterationsCap + 1
    /\ Len(req[r].modelMessages) = Len(SeedMessages) + 2 * MaxIterationsCap + 1
    /\ { req[r].modelMessages[2 * k + 2].kind : k \in 1..MaxIterationsCap }
         = {"invalidFormat", "refusalGuidance", "TOOL_RESULT"}

\* the tool request at i is answered by the repeat guard, not executed
Blocked(r, i) ==
  /\ Len(Tr(r)) >= i + 2
  /\ Tr(r)[i + 2] = Ev("warning", <<"Blocked repeated tool call", ActionAt(r, i).tool>>)

\* C27: a tool request is blocked by the repeat guard only if the two
\* completions of the request immediately before it were the same tool
\* request: an unparsable completion or a retried refusal between identical
\* tool requests breaks the run, so that A, A, unparsable, A executes the
\* third A.
C27_BlockedOnlyAfterTwoCompletions ==
  \A r \in DOMAIN req : \A i \in ToolRequests(r) :
    LET C == At(r, "completion") IN
    Blocked(r, i) =>
      /\ HasPrev(C, i)
      /\ HasPrev(C, Prev(C, i))
      /\ ActionAt(r, Prev(C, i)) = ActionAt(r, i)
      /\ ActionAt(r, Prev(C, Prev(C, i))) = ActionAt(r, i)

\* ------------------------------------------------------------------------
\* Claims about configuration changes during a request
\* ------------------------------------------------------------------------
\* C28: the iteration bound of a request is the maxIterations it started
\* its loop with: a configuration change while the request is suspended in
\* a model or tool call changes neither the bound its later loop tests read
\* nor the number of iterations after which the forced call is made.
C28_BoundFixedAtStart ==
  /\ [](\A r \in DOMAIN req :
          req[r].pc = "forcedCall" => req[r].iteration = req[r].iterationLimit + 1)
  /\ [][\A r \in DOMAIN req :
          req[r].iterationLimit # 0 => req'[r].iterationLimit = req[r].iterationLimit]_vars

\* ------------------------------------------------------------------------
\* Claims about the outcome of a request
\* ------------------------------------------------------------------------
FailureWarning == Ev("warning", <<"Agent execution failed">>)

\* the last n events of the trace of r
LastEvents(r, n) == SubSeq(Tr(r), Len(Tr(r)) - n + 1, Len(Tr(r)))

\* C29: a request has exactly one terminal outcome and nothing after it:
\* one answer emitted with markdown and then the empty result, or one
\* structured failure and no answer; before the outcome nothing is answered
\* or returned, and after it the request makes no model call, no tool
\* execution and no further emission.
C29_OneTerminalOutcome ==
  /\ [](\A r \in DOMAIN req :
          /\ req[r].pc \notin {"done", "failed"} =>
               At(r, "markdown") = {} /\ At(r, "return") = {}
          /\ req[r].pc = "done" =>
               /\ Cardinality(At(r, "markdown")) = 1
               /\ Cardinality(At(r, "return")) = 1
               /\ Len(Tr(r)) >= 2
               /\ LastEvents(r, 2)[1].ev = "markdown"
               /\ LastEvents(r, 2)[2] = Ev("return", <<"{}">>)
               /\ FailureWarning \notin { Tr(r)[i] : i \in 1..Len(Tr(r)) }
          /\ req[r].pc = "failed" =>
               /\ At(r, "markdown") = {}
               /\ Cardinality(At(r, "return")) = 1
               /\ Len(Tr(r)) >= 2
               /\ LastEvents(r, 2) = <<FailureWarning, Ev("return", <<"errorDetails">>)>>)
  /\ [][\A r \in DOMAIN req :
          req[r].pc \in {"done", "failed"} => req'[r] = req[r]]_vars

\* a request that executed a tool and then failed in its second model call
C29_Witness ==
  \E r \in DOMAIN req :
    /\ req[r].pc = "failed"
    /\ At(r, "toolResult") # {}
    /\ Cardinality(At(r, "sendRequest")) = 2
    /\ At(r, "markdown") = {}

\* a request that ended with the degraded raw-text answer
C29_AnswerWitness ==
  \E r \in DOMAIN req :
    /\ req[r].pc = "done"
    /\ DegradedWarning \in { Tr(r)[i] : i \in 1..Len(Tr(r)) }
    /\ Cardinality(At(r, "markdown")) = 1

\* ------------------------------------------------------------------------
\* Claims about a failed model selection
\* ------------------------------------------------------------------------
\* the selection of the default model that is cached has failed
CachedSelectionFailed ==
  modelPromise # 0 /\ promises[modelPromise].state = "rejected"

\* C30: a failed selection of the default model does not persist: a request
\* that arrives after the selection failed and needs the default model
\* starts a new selection and waits for it, also when the configuration has
\* not changed since.
C30_FailedSelectionRetried ==
  [][\A r \in DOMAIN req :
       ( /\ CachedSelectionFailed
         /\ req[r].pc = "idle"
         /\ req'[r].pc \in {"resolveModel", "failed"} )
       => /\ req'[r].pc = "resolveModel"
          /\ Len(promises') = Len(promises) + 1
          /\ req'[r].awaiting = Len(promises')]_vars

====
